---------------------------- MODULE Spec2Model ----------------------------
(***************************************************************************)
(* Coupon validation and redemption of the ecommerce service:              *)
(*   - voucher_is_valid        (ecommerce/coupons/views.py)                *)
(*   - CouponRedeemView.get    (ecommerce/coupons/views.py)                *)
(* and the voucher utilities (ecommerce/extensions/voucher/utils.py):      *)
(*   - get_voucher_discount_info, _generate_code_string,                   *)
(*     _get_or_create_offer, _create_new_voucher, create_vouchers          *)
(* SpecValid applies voucher_is_valid to bounded inputs; SpecRedeem runs   *)
(* concurrent CouponRedeemView requests against one shared store;          *)
(* SpecDiscount applies get_voucher_discount_info to bounded inputs;       *)
(* SpecGenerate runs _generate_code_string against a table of vouchers;    *)
(* SpecCreate runs create_vouchers calls against the database tables.      *)
(***************************************************************************)
EXTENDS Integers, Sequences, FiniteSets, TLC

VARIABLES
    vcall,      \* a call of voucher_is_valid: its arguments, clock reads and result
    clock,      \* timezone.now() as the redemption requests read it
    voucher,    \* the store's Voucher row (with its offer and recorded applications)
    product,    \* the store's product behind the stock record
    baskets,    \* per user, the open basket
    orders,     \* per user, the number of orders placed with the voucher
    req,        \* per request slot, the local state of CouponRedeemView.get
    dcall,      \* a call of get_voucher_discount_info: its arguments and result
    gcall,      \* a call of _generate_code_string: the Voucher codes it checks, its progress
    db,         \* the Range, ConditionalOffer and Voucher tables create_vouchers writes
    ccall,      \* the latest call of create_vouchers: its arguments and outcome
    cache,      \* the voucher cache and the Voucher row behind get_cached_voucher
    csvcall,    \* a request to EnrollmentCodeCsvView.get: the orders, the user, the response
    catalogue,  \* the Product, CouponVouchers, StockRecord and Catalog tables
    bcall       \* a call of prepare_basket: its arguments and the basket

\* the variables of the voucher utilities
utils == <<dcall, gcall, db, ccall>>

\* the variables of the cache, the CSV view, the catalogue utilities and the basket
others == <<cache, csvcall, catalogue, bcall>>

vars == <<vcall, clock, voucher, product, baskets, orders, req, utils, others>>

-----------------------------------------------------------------------------
(* Bounds *)

\* datetimes range over 0..MaxTime
MaxTime == 2
\* cap on the orders one user places with the voucher
MaxOrders == 2

-----------------------------------------------------------------------------
(* Values *)

\* Python's None
None == [isNone |-> TRUE]

Users == {"u1", "u2"}
\* request.user is a User or the AnonymousUser
AnonymousUser == "anon"

SINGLE_USE == "Single use"
MULTI_USE == "Multi-use"
ONCE_PER_CUSTOMER == "Once per customer"
Usages == {SINGLE_USE, MULTI_USE, ONCE_PER_CUSTOMER}

Min(a, b) == IF a <= b THEN a ELSE b
Max(a, b) == IF a >= b THEN a ELSE b

\* what a call hands back: a returned (valid, msg) pair or a raised exception
Returned(valid, msg) == [raised |-> FALSE, valid |-> valid, msg |-> msg]
Raised(exc) == [raised |-> TRUE, valid |-> FALSE, msg |-> exc]
\* a check that lets the call go on
Pass == Returned(TRUE, "")

-----------------------------------------------------------------------------
(* Library calls made by voucher_is_valid *)

\* Voucher.is_active(): the clock read lies inside the validity window
is_active(v, now) == v.start_datetime <= now /\ now <= v.end_datetime

\* request.user.is_authenticated()
is_authenticated(user) == user # AnonymousUser

\* voucher.applications.filter(user=user).count()
applications_of(v, user) ==
    IF user \in DOMAIN v.applications THEN v.applications[user] ELSE 0

\* Voucher.is_available_to_user(user): per-user usage eligibility
is_available_to_user(v, user) ==
    IF v.usage = SINGLE_USE
    THEN IF applications_of(v, user) > 0
         THEN <<FALSE, "This voucher has already been used">>
         ELSE <<TRUE, "">>
    ELSE IF v.usage = ONCE_PER_CUSTOMER
    THEN IF applications_of(v, user) > 0
         THEN <<FALSE, "You have already used this voucher in a previous order">>
         ELSE <<TRUE, "">>
    ELSE <<TRUE, "">>

\* msg.replace('voucher', 'coupon') on the messages is_available_to_user returns
replace_voucher_coupon(msg) ==
    CASE msg = "This voucher has already been used" -> "This coupon has already been used"
      [] msg = "You have already used this voucher in a previous order"
             -> "You have already used this coupon in a previous order"
      [] OTHER -> msg

\* ConditionalOffer.get_max_applications(user): remaining global applications
\* (max_global_applications = 0 stands for "not set")
get_max_applications(offer, user) ==
    IF offer.max_global_applications # 0
    THEN Min(10000, Max(0, offer.max_global_applications - offer.num_applications))
    ELSE 10000

-----------------------------------------------------------------------------
(* voucher_is_valid, check by check *)

\* check_window with the two comparisons in the opposite order
check_window_rejects_inactive(v, now1, now2) ==
    IF ~is_active(v, now1)
    THEN IF v.start_datetime > now2
         THEN Returned(FALSE, "This coupon code is not yet valid.")
         ELSE Returned(FALSE, "This coupon code has expired.")
    ELSE Pass

check_window_expiry_first(v, now1, now2) ==
    IF ~is_active(v, now1)
    THEN IF v.end_datetime < now2
         THEN Returned(FALSE, "This coupon code has expired.")
         ELSE IF v.start_datetime > now2
         THEN Returned(FALSE, "This coupon code is not yet valid.")
         ELSE Pass
    ELSE Pass

\* lines 65-70: now1 is the clock read inside is_active(), now2 the later timezone.now()
check_window(v, now1, now2) ==
    IF ~is_active(v, now1)
    THEN IF v.start_datetime > now2
         THEN Returned(FALSE, "This coupon code is not yet valid.")
         ELSE IF v.end_datetime < now2
         THEN Returned(FALSE, "This coupon code has expired.")
         ELSE Pass
    ELSE Pass

\* check_user handing back the library's message unchanged
check_user_raw_message(v, request) ==
    IF request = None
    THEN Raised("AttributeError")
    ELSE IF is_authenticated(request.user)
    THEN LET r == is_available_to_user(v, request.user)
         IN IF ~r[1] THEN Returned(FALSE, r[2]) ELSE Pass
    ELSE Pass

\* check_user consulting the voucher's usage whether or not the user is logged in
check_user_ignoring_login(v, request) ==
    IF request = None
    THEN Raised("AttributeError")
    ELSE IF v.usage # MULTI_USE /\ \E u \in Users : applications_of(v, u) > 0
    THEN Returned(FALSE, "This coupon has already been used")
    ELSE Pass

\* lines 72-77
check_user(v, request) ==
    IF request = None
    THEN Raised("AttributeError")
    ELSE IF is_authenticated(request.user)
    THEN LET r == is_available_to_user(v, request.user)
         IN IF ~r[1] THEN Returned(FALSE, replace_voucher_coupon(r[2])) ELSE Pass
    ELSE Pass

\* lines 79-82
check_product_every_product(products) ==
    IF \E i \in DOMAIN products : ~products[i].is_available_to_buy
    THEN Returned(FALSE, "Product not available for purchase.")
    ELSE Pass

check_product(products) ==
    IF Len(products) = 1
    THEN IF ~products[1].is_available_to_buy
         THEN Returned(FALSE, "Product not available for purchase.")
         ELSE Pass
    ELSE Pass

\* lines 84-87
check_offer(v, request) ==
    IF v.offer = None
    THEN Raised("AttributeError")
    ELSE IF get_max_applications(v.offer, request.user) = 0
    THEN Returned(FALSE, "This coupon code is no longer available.")
    ELSE Pass

\* voucher_is_valid looking at the offer's remaining applications before the user
voucher_is_valid_offer_before_user(v, products, request, now1, now2) ==
    IF v = None
    THEN Returned(FALSE, "Coupon does not exist.")
    ELSE LET w == check_window(v, now1, now2) IN
         IF w # Pass THEN w
         ELSE IF request = None THEN Raised("AttributeError")
         ELSE LET o == check_offer(v, request) IN
              IF o # Pass THEN o
              ELSE LET u == check_user(v, request) IN
                   IF u # Pass THEN u
                   ELSE LET p == check_product(products) IN
                        IF p # Pass THEN p
                        ELSE Returned(TRUE, "")

\* lines 48-89
voucher_is_valid(v, products, request, now1, now2) ==
    IF v = None
    THEN Returned(FALSE, "Coupon does not exist.")
    ELSE LET w == check_window(v, now1, now2) IN
         IF w # Pass THEN w
         ELSE LET u == check_user(v, request) IN
              IF u # Pass THEN u
              ELSE LET p == check_product(products) IN
                   IF p # Pass THEN p
                   ELSE LET o == check_offer(v, request) IN
                        IF o # Pass THEN o
                        ELSE Returned(TRUE, "")

-----------------------------------------------------------------------------
(* SpecValid: voucher_is_valid applied to bounded arguments *)

Times == 0..MaxTime

OfferArgs ==
    {None} \cup [max_global_applications : {0, 1}, num_applications : {0, 1}]

VoucherArgs ==
    {None} \cup [start_datetime : Times, end_datetime : Times, usage : Usages,
                 applications : [Users -> {0, 1}], offer : OfferArgs]

ProductArgs == [is_available_to_buy : BOOLEAN]

ProductLists ==
    {<<>>} \cup {<<p>> : p \in ProductArgs} \cup {<<p, q>> : p \in ProductArgs, q \in ProductArgs}

RequestArgs == {None} \cup [user : Users \cup {AnonymousUser}]

\* the state of the redemption side while only voucher_is_valid is exercised
NoStore ==
    /\ clock = 0
    /\ voucher = None
    /\ product = None
    /\ baskets = [u \in Users |-> None]
    /\ orders = [u \in Users |-> 0]
    /\ req = <<>>

\* the state of the cache, the CSV view, the catalogue utilities and the basket while
\* they are not exercised
NoOthers ==
    /\ cache = None
    /\ csvcall = None
    /\ catalogue = None
    /\ bcall = None

\* the state of the voucher utilities while the coupon views are exercised
NoUtils ==
    /\ dcall = None
    /\ gcall = None
    /\ db = None
    /\ ccall = None

\* the arguments of the call and the two clock reads (the clock never runs backwards)
InitValid ==
    /\ \E v \in VoucherArgs, ps \in ProductLists, rq \in RequestArgs,
          n1 \in Times, n2 \in Times :
          /\ n1 <= n2
          /\ vcall = [called |-> FALSE, voucher |-> v, products |-> ps, request |-> rq,
                      now1 |-> n1, now2 |-> n2, result |-> None]
    /\ NoStore
    /\ NoUtils
    /\ NoOthers

\* the call: now1 is read inside is_active(), now2 at line 66
CallVoucherIsValid ==
    /\ ~vcall.called
    /\ vcall' = [vcall EXCEPT
           !.called = TRUE,
           !.result = voucher_is_valid(vcall.voucher, vcall.products, vcall.request,
                                       vcall.now1, vcall.now2)]
    /\ UNCHANGED <<others, utils, clock, voucher, product, baskets, orders, req>>

NextValid == CallVoucherIsValid

SpecValid == InitValid /\ [][NextValid]_vars

-----------------------------------------------------------------------------
(* The store and the requests of CouponRedeemView *)

ReqIds == {"r1", "r2"}

\* request.GET.get(...) finding no usable value (None or '')
NoParam == ""
\* the voucher's range names no enterprise customer
NoEnterprise == ""
\* product.course is None
NoCourse == ""

COUPON_CODE == "COUPONTEST"
SKU == "SKU1"
ENTERPRISE_CUSTOMER == "cf246b88"
\* an enterprise customer the Enterprise service does not know
UNKNOWN_ENTERPRISE_CUSTOMER == "unknown"

\* the domain of request.user.email
email_domain_of(user) == IF user = "u1" THEN "tester.fake" ELSE "example.com"

Offer(max_uses, benefit_value, email_domains) ==
    [max_global_applications |-> max_uses, num_applications |-> 0,
     benefit_value |-> benefit_value, email_domains |-> email_domains]

VoucherRow(usage, offer, start, end, enterprise_customer) ==
    [code |-> COUPON_CODE, start_datetime |-> start, end_datetime |-> end,
     usage |-> usage, applications |-> [u \in Users |-> 0], offer |-> offer,
     enterprise_customer |-> enterprise_customer]

\* the voucher rows the requests run against: every usage type, benefit and
\* max_uses in an open window; a future and an expired window; a voucher without
\* offer; an offer restricted to an email domain; a known and an unknown
\* enterprise customer
StoreVouchers ==
    {VoucherRow(us, Offer(mu, b, {}), 0, MaxTime, NoEnterprise) :
        us \in Usages, mu \in {0, 1}, b \in {100, 50}}
    \cup {VoucherRow(SINGLE_USE, Offer(0, 100, {}), MaxTime, MaxTime, NoEnterprise),
          VoucherRow(SINGLE_USE, Offer(0, 100, {}), 0, 0, NoEnterprise),
          VoucherRow(SINGLE_USE, None, 0, MaxTime, NoEnterprise)}
    \cup {VoucherRow(SINGLE_USE, Offer(0, b, {"example.com"}), 0, MaxTime, NoEnterprise) :
        b \in {100, 50}}
    \cup {VoucherRow(SINGLE_USE, Offer(0, b, {}), 0, MaxTime, ec) :
        b \in {100, 50}, ec \in {ENTERPRISE_CUSTOMER, UNKNOWN_ENTERPRISE_CUSTOMER}}

StoreProducts ==
    [sku : {SKU}, course : {"course1", NoCourse}, price : {100},
     is_available_to_buy : BOOLEAN]

Render(what) == [kind |-> "render", what |-> what]
Redirect(to) == [kind |-> "redirect", what |-> to]
Raise(exc) == [kind |-> "raise", what |-> exc]
NoResponse == [kind |-> "none", what |-> ""]

\* a slot with no request in flight
NoRequest ==
    [pc |-> "idle", user |-> "", code |-> NoParam, sku |-> NoParam,
     voucher_found |-> FALSE, product_found |-> FALSE, valid_voucher |-> FALSE,
     email_valid |-> FALSE, is_active |-> FALSE,
     consent |-> "unchecked", needs_consent |-> FALSE, consent_token |-> NoParam,
     basket |-> None, order |-> FALSE, place_error |-> "", logged |-> FALSE,
     response |-> NoResponse]

\* the request ends with this response
Done(q, response) == [q EXCEPT !.pc = "done", !.response = response]

-----------------------------------------------------------------------------
(* Calls made by CouponRedeemView.get *)

\* ConditionalOffer.is_email_valid(email)
is_email_valid(offer, user) ==
    offer.email_domains = {} \/ email_domain_of(user) \in offer.email_domains

\* get_enterprise_customer_from_voucher(site, voucher): None, the customer, or
\* EnterpriseDoesNotExist
get_enterprise_customer_from_voucher(v) ==
    IF v.enterprise_customer = NoEnterprise THEN "None"
    ELSE IF v.enterprise_customer = UNKNOWN_ENTERPRISE_CUSTOMER THEN "EnterpriseDoesNotExist"
    ELSE "customer"

\* get_enterprise_customer_data_sharing_consent_token(access_token, course_id, id)
consent_token_of(user) == IF user = "u1" THEN "token-u1" ELSE "token-u2"

ConsentTokens == {consent_token_of(u) : u \in Users}

\* prepare_basket(request, [product], voucher): the user's basket is flushed, holds
\* the product and the voucher, and the offer's discount is applied; raises
\* AlreadyPlacedOrderException for a product the user already purchased
prepare_basket(user, p, v, purchased) ==
    IF purchased
    THEN None
    ELSE [owner |-> user, product |-> p.sku, voucher |-> v.code,
          total_excl_tax |-> p.price - (p.price * v.offer.benefit_value) \div 100]

\* a database without the constraint on (voucher, user)
application_accepted_always(v, user) == TRUE

\* the database accepts a new VoucherApplication(voucher, user)
application_accepted(v, user) ==
    ~(v.usage = SINGLE_USE /\ v.applications[user] > 0)

\* EdxOrderPlacementMixin.place_free_order(basket): "ok", or the exception raised
place_free_order(v, user, fails) ==
    IF fails THEN "Exception"
    ELSE IF ~application_accepted(v, user) THEN "IntegrityError"
    ELSE "ok"

\* the voucher row after an order recorded its application and the offer's usage
record_usage(v, user) ==
    [v EXCEPT !.applications[user] = @ + 1,
              !.offer.num_applications = @ + 1]

-----------------------------------------------------------------------------
(* CouponRedeemView.get, step by step *)

\* any received token taken for the computed one
consent_token_matches_any(received, computed) == TRUE

\* line 214
consent_token_matches(received, computed) == ~(received # computed)

\* every basket taken for a free one
basket_is_free_always(basket) == TRUE

\* line 235
basket_is_free(basket) == basket.total_excl_tax = 0

\* lines 146-154: the request arrives with its user, code and sku
Receive(r) ==
    /\ req[r].pc = "idle"
    /\ \E u \in Users, code \in {NoParam, COUPON_CODE, "DOESNTEXIST"},
          sku \in {NoParam, SKU, "INVALID"} :
          LET q == [NoRequest EXCEPT !.user = u, !.code = code, !.sku = sku] IN
          req' = [req EXCEPT ![r] =
                    IF code = NoParam THEN Done(q, Render("Code not provided."))
                    ELSE IF sku = NoParam THEN Done(q, Render("SKU not provided."))
                    ELSE [q EXCEPT !.pc = "resolve"]]
    /\ UNCHANGED <<others, utils, vcall, clock, voucher, product, baskets, orders>>

\* lines 156-165: Voucher.objects.get(code=code), StockRecord.objects.get(partner_sku=sku)
Resolve(r) ==
    /\ req[r].pc = "resolve"
    /\ req' = [req EXCEPT ![r] =
                IF req[r].code # voucher.code
                THEN Done(@, Render("No voucher found with code"))
                ELSE IF req[r].sku # product.sku
                THEN Done([@ EXCEPT !.voucher_found = TRUE],
                          Render("The product does not exist."))
                ELSE [@ EXCEPT !.voucher_found = TRUE, !.product_found = TRUE,
                               !.pc = "validate"]]
    /\ UNCHANGED <<others, utils, vcall, clock, voucher, product, baskets, orders>>

\* lines 167-169
Validate(r) ==
    /\ req[r].pc = "validate"
    /\ LET res == voucher_is_valid(voucher, <<product>>, [user |-> req[r].user],
                                   clock, clock)
       IN req' = [req EXCEPT ![r] =
                    IF res.raised THEN Done(@, Raise(res.msg))
                    ELSE IF ~res.valid THEN Done(@, Render(res.msg))
                    ELSE [@ EXCEPT !.valid_voucher = TRUE, !.pc = "eligible"]]
    /\ UNCHANGED <<others, utils, vcall, clock, voucher, product, baskets, orders>>

\* Eligible going on whatever is_email_valid answers
Eligible_ignoring_email(r) ==
    /\ req[r].pc = "eligible"
    /\ \E active \in BOOLEAN :
          req' = [req EXCEPT ![r] =
                    IF voucher.offer = None THEN Done(@, Raise("AttributeError"))
                    ELSE IF ~active
                    THEN Done([@ EXCEPT !.email_valid = is_email_valid(voucher.offer, req[r].user)],
                              Render("edx/email_confirmation_required.html"))
                    ELSE [@ EXCEPT !.email_valid = is_email_valid(voucher.offer, req[r].user),
                                   !.is_active = TRUE, !.pc = "consent"]]
    /\ UNCHANGED <<others, utils, vcall, clock, voucher, product, baskets, orders>>

\* lines 171-182: the offer's email domains, then the account's is_active as the
\* LMS reports it
Eligible(r) ==
    /\ req[r].pc = "eligible"
    /\ \E active \in BOOLEAN :
          req' = [req EXCEPT ![r] =
                    IF voucher.offer = None THEN Done(@, Raise("AttributeError"))
                    ELSE IF ~is_email_valid(voucher.offer, req[r].user)
                    THEN Done(@, Render("You are not eligible to use this coupon."))
                    ELSE IF ~active
                    THEN Done([@ EXCEPT !.email_valid = TRUE],
                              Render("edx/email_confirmation_required.html"))
                    ELSE [@ EXCEPT !.email_valid = TRUE, !.is_active = TRUE,
                                   !.pc = "consent"]]
    /\ UNCHANGED <<others, utils, vcall, clock, voucher, product, baskets, orders>>

\* lines 187-232: needs is the Enterprise service's answer, token the request's
\* consent_token parameter (read at line 210)
Consent(r) ==
    /\ req[r].pc = "consent"
    /\ \E needs \in BOOLEAN, token \in {NoParam} \cup ConsentTokens :
          LET customer == get_enterprise_customer_from_voucher(voucher) IN
          req' = [req EXCEPT ![r] =
                    IF customer = "EnterpriseDoesNotExist"
                    THEN Done([@ EXCEPT !.logged = TRUE],
                              Render("Couldn't find a matching Enterprise Customer for this coupon."))
                    ELSE IF customer = "None"
                    THEN [@ EXCEPT !.consent = "not applicable", !.pc = "basket"]
                    ELSE IF product.course = NoCourse
                    THEN Done(@, Raise("AttributeError"))
                    ELSE IF ~needs
                    THEN [@ EXCEPT !.consent = "not needed", !.pc = "basket"]
                    ELSE LET q == [@ EXCEPT !.needs_consent = TRUE,
                                            !.consent_token = token] IN
                         IF token # NoParam
                         THEN IF ~consent_token_matches(token, consent_token_of(req[r].user))
                              THEN Done([q EXCEPT !.consent = "mismatch"],
                                        Render("Invalid data sharing consent token provided."))
                              ELSE [q EXCEPT !.consent = "matched", !.pc = "basket"]
                         ELSE Done([q EXCEPT !.consent = "redirected"],
                                   Redirect("consent"))]
    /\ UNCHANGED <<others, utils, vcall, clock, voucher, product, baskets, orders>>

\* line 234: purchased_before says whether the user bought the product earlier by
\* other means; an order placed with the voucher counts as a purchase
PrepareBasket(r) ==
    /\ req[r].pc = "basket"
    /\ \E purchased_before \in BOOLEAN :
          LET user == req[r].user
              basket == prepare_basket(user, product, voucher,
                                       purchased_before \/ orders[user] > 0)
          IN IF basket = None
             THEN /\ req' = [req EXCEPT ![r] = Done(@, Raise("AlreadyPlacedOrderException"))]
                  /\ UNCHANGED baskets
             ELSE /\ req' = [req EXCEPT ![r] = [@ EXCEPT !.basket = basket, !.pc = "order"]]
                  /\ baskets' = [baskets EXCEPT ![user] = basket]
    /\ UNCHANGED <<others, utils, vcall, clock, voucher, product, orders>>

\* lines 235-242: fails says whether place_free_order hits an unexpected failure
PlaceOrder(r) ==
    /\ req[r].pc = "order"
    /\ LET user == req[r].user IN
       IF basket_is_free(req[r].basket)
       THEN \E fails \in BOOLEAN :
               LET outcome == place_free_order(voucher, user, fails) IN
               IF outcome = "ok"
               THEN /\ orders[user] < MaxOrders
                    /\ orders' = [orders EXCEPT ![user] = @ + 1]
                    /\ voucher' = record_usage(voucher, user)
                    /\ baskets' = [baskets EXCEPT ![user] = None]
                    /\ req' = [req EXCEPT ![r] =
                                Done([@ EXCEPT !.order = TRUE], Redirect("receipt"))]
               ELSE /\ req' = [req EXCEPT ![r] =
                                Done([@ EXCEPT !.place_error = outcome, !.logged = TRUE],
                                     Redirect("checkout:error"))]
                    /\ UNCHANGED <<voucher, baskets, orders>>
       ELSE /\ req' = [req EXCEPT ![r] = Done(@, Redirect("basket:summary"))]
            /\ UNCHANGED <<voucher, baskets, orders>>
    /\ UNCHANGED <<others, utils, vcall, clock, product>>

\* the response is handed back; the slot is free for the next request
Respond(r) ==
    /\ req[r].pc = "done"
    /\ req' = [req EXCEPT ![r] = NoRequest]
    /\ UNCHANGED <<others, utils, vcall, clock, voucher, product, baskets, orders>>

\* the requests are served at clock 1: the window 0..MaxTime is open, MaxTime..MaxTime
\* lies ahead and 0..0 has passed
InitRedeem ==
    /\ vcall = None
    /\ clock = 1
    /\ voucher \in StoreVouchers
    /\ product \in StoreProducts
    /\ baskets = [u \in Users |-> None]
    /\ orders = [u \in Users |-> 0]
    /\ req = [r \in ReqIds |-> NoRequest]
    /\ NoUtils
    /\ NoOthers

NextRedeem ==
    \E r \in ReqIds :
        \/ Receive(r)
        \/ Resolve(r)
        \/ Validate(r)
        \/ Eligible(r)
        \/ Consent(r)
        \/ PrepareBasket(r)
        \/ PlaceOrder(r)
        \/ Respond(r)

SpecRedeem == InitRedeem /\ [][NextRedeem]_vars

-----------------------------------------------------------------------------
(* get_voucher_discount_info (ecommerce/extensions/voucher/utils.py) *)

\* benefit values range over 0..MaxValue (per cent or currency units)
MaxValue == 102
\* prices range over -1..MaxPrice (currency units)
MaxPrice == 102

\* Benefit.PERCENTAGE and Benefit.FIXED
PERCENTAGE == "Percentage"
FIXED == "Absolute"

\* a Decimal amount, so that a missing price (None) and a price are both records
Decimal(n) == [amount |-> n]

\* the floats of the result, kept exact as fractions with a positive denominator
Rat(n, d) == [num |-> n, den |-> d]
RatEq(a, b) == a.num * b.den = b.num * a.den
RatLess(a, b) == a.num * b.den < b.num * a.den
RatLeq(a, b) == a.num * b.den <= b.num * a.den
RatMin(a, b) == IF RatLeq(a, b) THEN a ELSE b

\* float(x) of a Decimal
float(x) == Rat(x, 1)

\* ecommerce.extensions.offer.utils.get_discount_percentage: value / price * 100
get_discount_percentage(discount_value, product_price) ==
    IF product_price.num > 0
    THEN Rat(discount_value.num * product_price.den * 100,
             discount_value.den * product_price.num)
    ELSE Rat(0, 1)

\* ecommerce.extensions.offer.utils.get_discount_value: percentage * price / 100
get_discount_value(discount_percentage, product_price) ==
    Rat(discount_percentage.num * product_price.num,
        discount_percentage.den * product_price.den * 100)

\* "benefit and price > 0" (line 533): a missing benefit is falsy, and Python 2
\* orders None below every number, so a missing price is not > 0
has_discount_at_zero_price(benefit, price) ==
    benefit # None /\ price # None /\ price.amount >= 0
has_discount(benefit, price) ==
    benefit # None /\ price # None /\ price.amount > 0

\* the percentage branch (lines 537-541)
percentage_discount_info_discounted_at_100(benefit, benefit_value, price) ==
    [discount_percentage |-> benefit_value,
     discount_value |-> get_discount_value(benefit_value, price),
     is_discounted |-> benefit.value <= 100]
percentage_discount_info_of_full_price(benefit, benefit_value, price) ==
    [discount_percentage |-> benefit_value,
     discount_value |-> price,
     is_discounted |-> benefit.value < 100]
percentage_discount_info(benefit, benefit_value, price) ==
    [discount_percentage |-> benefit_value,
     discount_value |-> get_discount_value(benefit_value, price),
     is_discounted |-> benefit.value < 100]

\* the fixed-amount branch (lines 542-554)
fixed_discount_info_uncapped(benefit_value, price) ==
    LET discount_percentage == get_discount_percentage(benefit_value, price)
    IN  [discount_percentage |-> discount_percentage,
         discount_value |-> benefit_value,
         is_discounted |-> RatLess(discount_percentage, Rat(100, 1))]
fixed_discount_info(benefit_value, price) ==
    LET discount_percentage == get_discount_percentage(benefit_value, price)
    IN  IF RatLess(Rat(100, 1), discount_percentage)
        THEN [discount_percentage |-> Rat(100, 1),
              discount_value |-> price,
              is_discounted |-> FALSE]
        ELSE [discount_percentage |-> discount_percentage,
              discount_value |-> benefit_value,
              is_discounted |-> RatLess(discount_percentage, Rat(100, 1))]

\* the result when there is nothing to discount (lines 555-560)
zero_discount_info ==
    [discount_percentage |-> Rat(0, 1), discount_value |-> Rat(0, 1), is_discounted |-> FALSE]

get_voucher_discount_info(benefit, price) ==
    IF has_discount(benefit, price)
    THEN LET benefit_value == float(benefit.value)
             price_f == float(price.amount)
         IN  IF benefit.type = PERCENTAGE
             THEN percentage_discount_info(benefit, benefit_value, price_f)
             ELSE fixed_discount_info(benefit_value, price_f)
    ELSE zero_discount_info

BenefitArgs == {None} \cup [type : {PERCENTAGE, FIXED}, value : 0..MaxValue]
PriceArgs == {None} \cup {Decimal(n) : n \in -1..MaxPrice}

\* the state of the coupon views while the voucher utilities are exercised
NoViews ==
    /\ vcall = None
    /\ NoStore

InitDiscount ==
    /\ \E b \in BenefitArgs, p \in PriceArgs :
          dcall = [called |-> FALSE, benefit |-> b, price |-> p, result |-> None]
    /\ gcall = None
    /\ db = None
    /\ ccall = None
    /\ NoViews
    /\ NoOthers

CallGetVoucherDiscountInfo ==
    /\ ~dcall.called
    /\ dcall' = [dcall EXCEPT
           !.called = TRUE,
           !.result = get_voucher_discount_info(dcall.benefit, dcall.price)]
    /\ UNCHANGED <<others, vcall, clock, voucher, product, baskets, orders, req, gcall, db, ccall>>

NextDiscount == CallGetVoucherDiscountInfo

SpecDiscount == InitDiscount /\ [][NextDiscount]_vars

-----------------------------------------------------------------------------
(* _generate_code_string (ecommerce/extensions/voucher/utils.py) *)

\* requested code lengths range over -1..MaxLength
MaxLength == 2
\* the Voucher table holds at most MaxVouchers rows
MaxVouchers == 2
\* cap on the depth of the recursion on collisions
MaxDepth == 3

\* the letters of the base32 alphabet the model keeps, and lower-case letters that
\* explicitly supplied codes may hold
Base32Alphabet == {"A", "B"}
LowerCase == {"a"}

\* codes are sequences of letters
CodesOver(letters, n) == [1..n -> letters]
AnyCodes == UNION {CodesOver(Base32Alphabet \cup LowerCase, n) : n \in 1..MaxLength}

upper(ch) == IF ch = "a" THEN "A" ELSE ch
Upper(code) == [i \in DOMAIN code |-> upper(code[i])]

\* the lookup code__iexact: equal ignoring case
iexact(c1, c2) == Upper(c1) = Upper(c2)

\* base64.b32encode(h.digest())[0:length] of the hash of a fresh uuid4 (lines 340-342):
\* any code of that length over the base32 alphabet
generated_codes(length) == CodesOver(Base32Alphabet, length)

\* Voucher.objects.filter(code__iexact=voucher_code).exists() (line 343)
code_exists_exact(vouchers, voucher_code) ==
    \E c \in vouchers : c = voucher_code
code_exists(vouchers, voucher_code) ==
    \E c \in vouchers : iexact(c, voucher_code)

\* the tables of at most k codes
RECURSIVE CodeTables(_)
CodeTables(k) ==
    IF k = 0
    THEN {{}}
    ELSE LET smaller == CodeTables(k - 1)
         IN  smaller \cup {t \cup {c} : t \in smaller, c \in AnyCodes}

VoucherCodeTables == CodeTables(MaxVouchers)

InitGenerate ==
    /\ \E t \in VoucherCodeTables, n \in -1..MaxLength :
          gcall = [pc |-> "start", length |-> n, vouchers |-> t, depth |-> 0,
                   voucher_code |-> <<>>, result |-> None]
    /\ dcall = None
    /\ db = None
    /\ ccall = None
    /\ NoViews
    /\ NoOthers

\* one invocation of _generate_code_string: the first call or a recursive one
GenerateCodeString ==
    /\ gcall.pc \in {"start", "retry"}
    /\ gcall.depth < MaxDepth
    /\ IF gcall.length < 1
       THEN gcall' = [gcall EXCEPT !.pc = "raised", !.result = Raised("ValueError")]
       ELSE \E voucher_code \in generated_codes(gcall.length) :
                IF code_exists(gcall.vouchers, voucher_code)
                THEN gcall' = [gcall EXCEPT !.pc = "retry", !.depth = @ + 1,
                                            !.voucher_code = voucher_code]
                ELSE gcall' = [gcall EXCEPT !.pc = "returned", !.depth = @ + 1,
                                            !.voucher_code = voucher_code,
                                            !.result = [code |-> voucher_code]]
    /\ UNCHANGED <<others, vcall, clock, voucher, product, baskets, orders, req, dcall, db, ccall>>

NextGenerate == GenerateCodeString

SpecGenerate == InitGenerate /\ [][NextGenerate]_vars

-----------------------------------------------------------------------------
(* create_vouchers (ecommerce/extensions/voucher/utils.py) *)

\* create_vouchers is asked for 1..MaxQuantity vouchers
MaxQuantity == 2
\* settings.VOUCHER_CODE_LENGTH, the length of the generated codes
VOUCHER_CODE_LENGTH == 2

\* the code argument when no code is supplied (None or the empty string)
NoCode == <<>>

\* datetime arguments: a datetime, a string dateutil parses to a datetime, a string it
\* cannot parse, a value that is no string (a number), the empty string, or None
Datetime(t) == [datetime |-> t]
DateString(t) == [parseable |-> t]
BadDateString == [unparseable |-> TRUE]
NotADateString == [number |-> TRUE]
EmptyString == [empty |-> TRUE]
CreateTimes == {1, 2}
DateArgs == {None, EmptyString, BadDateString, NotADateString, DateString(1), Datetime(2)}

\* max_uses arguments: None, an integer, a string of digits, another string
Number(n) == [int |-> n]
DigitString(n) == [digits |-> n]
BadNumberString == [letters |-> TRUE]
MaxUsesArgs == {None, Number(0), DigitString(1), BadNumberString}

\* benefit arguments; a benefit_value of None is what Decimal() rejects
CreateBenefitArgs ==
    {[type |-> PERCENTAGE, value |-> Number(100)], [type |-> PERCENTAGE, value |-> Number(50)],
     [type |-> FIXED, value |-> Number(100)], [type |-> PERCENTAGE, value |-> None]}

\* the coupon the call creates vouchers for, and the coupon of earlier vouchers
COUPON == 1
EARLIER_COUPON == 0

\* log_message_and_raise_validation_error(message)
ValidationError(message) == [raised |-> TRUE, exc |-> "ValidationError", msg |-> message]
\* the database rejects a row that breaks a uniqueness constraint
IntegrityError == [raised |-> TRUE, exc |-> "IntegrityError", msg |-> "code"]
\* a function that returned value
Return(value) == [raised |-> FALSE, value |-> value]

\* int(max_uses) (line 463): ValueError for a string that holds no number
int_raises(max_uses) == max_uses = BadNumberString
int(max_uses) == IF "int" \in DOMAIN max_uses THEN max_uses.int ELSE max_uses.digits

\* the max_uses checks (lines 455-465): no result when they pass
max_uses_check_when_truthy(voucher_type, max_uses) ==
    IF max_uses \notin {None, Number(0)} /\ voucher_type = SINGLE_USE
    THEN ValidationError("max_uses field cannot be set for voucher type [Single use].")
    ELSE IF max_uses \notin {None, Number(0)} /\ int_raises(max_uses)
    THEN ValidationError("max_uses field must be a number.")
    ELSE None
max_uses_check(voucher_type, max_uses) ==
    IF max_uses # None /\ voucher_type = SINGLE_USE
    THEN ValidationError("max_uses field cannot be set for voucher type [Single use].")
    ELSE IF max_uses # None /\ int_raises(max_uses)
    THEN ValidationError("max_uses field must be a number.")
    ELSE None

\* max_uses as it reaches the offers
converted_max_uses(max_uses) == IF max_uses = None THEN None ELSE Number(int(max_uses))

\* the name of the Range of a coupon (line 476)
range_name(coupon_id) == [range_for_coupon |-> coupon_id]

\* the name of an offer (lines 308-310): "if offer_number" leaves number 0 without suffix
offer_name_without_number(coupon_id, benefit, offer_number) ==
    [coupon_id |-> coupon_id, type |-> benefit.type, value |-> benefit.value, suffix |-> 0]
offer_name(coupon_id, benefit, offer_number) ==
    [coupon_id |-> coupon_id, type |-> benefit.type, value |-> benefit.value,
     suffix |-> IF offer_number # 0 THEN offer_number ELSE 0]

\* a ConditionalOffer row
OfferRow(name, range, benefit, max_uses) ==
    [name |-> name, range |-> range, benefit |-> benefit, max_global_applications |-> max_uses]

\* _get_or_create_offer (lines 266-321): the offers table with the offer in it, and the
\* offer; Decimal(benefit_value) failing raises a validation error
_get_or_create_offer(offers, product_range, benefit, coupon_id, max_uses, offer_number) ==
    IF benefit.value = None
    THEN [offers |-> offers,
          result |-> ValidationError("Benefit value must be a positive number or 0.")]
    ELSE LET offer == OfferRow(offer_name(coupon_id, benefit, offer_number),
                               product_range, benefit, max_uses)
         IN  [offers |-> IF offer \in DOMAIN offers THEN offers ELSE (offer :> 0) @@ offers,
              result |-> Return(offer)]

\* the checks of one datetime argument (lines 370-378 and 380-388): no result when it
\* is accepted.  dateutil raises ValueError for a string it cannot parse and
\* AttributeError for a value that is no string; both are caught.
datetime_check_uncaught(value, field) ==
    IF value \in {None, EmptyString}
    THEN ValidationError(<<field, "field must be set.">>)
    ELSE IF value \in {BadDateString, NotADateString}
    THEN [raised |-> TRUE, exc |-> "ValueError", msg |-> <<field, "is invalid.">>]
    ELSE None
datetime_check(value, field) ==
    IF value \in {None, EmptyString}
    THEN ValidationError(<<field, "field must be set.">>)
    ELSE IF value \in {BadDateString, NotADateString}
    THEN ValidationError(<<field, "is invalid.">>)
    ELSE None

\* the datetime that is stored: the argument itself or dateutil.parser.parse of it
parsed_datetime(value) ==
    IF "datetime" \in DOMAIN value THEN value.datetime ELSE value.parseable

\* a Voucher row with its linked offers
VoucherRowOf(name, code, usage, start_datetime, end_datetime, offer) ==
    [name |-> name, code |-> code, usage |-> usage, start_datetime |-> start_datetime,
     end_datetime |-> end_datetime, offers |-> {offer}]

\* the codes of the Voucher table
codes_of(vouchers) == {vouchers[i].code : i \in DOMAIN vouchers}

\* Voucher.objects.create (lines 390-396) against the uniqueness of Voucher.code, which
\* ignores case: the row is rejected when a voucher of the table has the code
violates_unique_code_exact(vouchers, voucher_code) ==
    code_exists_exact(codes_of(vouchers), voucher_code)
violates_unique_code(vouchers, voucher_code) ==
    code_exists(codes_of(vouchers), voucher_code)

\* the rule of line 366: no explicit code for an enrollment coupon
enrollment_code_check_fixed_only(offer, code) ==
    IF offer.benefit.type = FIXED /\ offer.benefit.value = Number(100) /\ code # NoCode
    THEN ValidationError("Code may not be set for enrollment coupon.")
    ELSE None
enrollment_code_check(offer, code) ==
    IF offer.benefit.type = PERCENTAGE /\ offer.benefit.value = Number(100) /\ code # NoCode
    THEN ValidationError("Code may not be set for enrollment coupon.")
    ELSE None

\* _create_new_voucher (lines 349-399): the Voucher table after the call, and the
\* voucher or what is raised; generated is what _generate_code_string returns
_create_new_voucher(vouchers, code, end_datetime, name, offer, start_datetime, voucher_type, generated) ==
    LET voucher_code == IF code # NoCode THEN code ELSE generated
        failed(error) == [vouchers |-> vouchers, result |-> error]
    IN  IF enrollment_code_check(offer, code) # None
        THEN failed(enrollment_code_check(offer, code))
        ELSE IF datetime_check(end_datetime, "end datetime") # None
        THEN failed(datetime_check(end_datetime, "end datetime"))
        ELSE IF datetime_check(start_datetime, "start datetime") # None
        THEN failed(datetime_check(start_datetime, "start datetime"))
        ELSE IF violates_unique_code(vouchers, voucher_code)
        THEN failed(IntegrityError)
        ELSE LET new_voucher == VoucherRowOf(name, voucher_code, voucher_type,
                                             parsed_datetime(start_datetime),
                                             parsed_datetime(end_datetime), offer)
             IN  [vouchers |-> Append(vouchers, new_voucher),
                  result |-> Return(new_voucher)]

\* the loop of lines 495-505 from offer number num on
RECURSIVE create_offers(_, _, _, _, _, _, _)
create_offers(offers, created, num, num_of_offers, product_range, benefit, max_uses) ==
    IF num >= num_of_offers
    THEN [offers |-> offers, result |-> Return(created)]
    ELSE LET got == _get_or_create_offer(offers, product_range, benefit, COUPON,
                                         max_uses, num)
         IN  IF got.result.raised
             THEN got
             ELSE create_offers(got.offers, Append(created, got.result.value), num + 1,
                                num_of_offers, product_range, benefit, max_uses)

\* "for i in range(quantity)" (line 507), with i counting from 1
in_voucher_range_but_last(i, quantity) == i < quantity
in_voucher_range(i, quantity) == i <= quantity

\* the loop of lines 507-516 from voucher i on
RECURSIVE create_new_vouchers(_, _, _, _, _, _, _)
create_new_vouchers(vouchers, created, i, args, offers, multi_offer, generated) ==
    IF ~in_voucher_range(i, args.quantity)
    THEN [vouchers |-> vouchers, result |-> Return(created)]
    ELSE LET made == _create_new_voucher(
                         vouchers, args.code, args.end_datetime, args.name,
                         IF multi_offer THEN offers[i] ELSE offers[1],
                         args.start_datetime, args.voucher_type, generated[i])
         IN  IF made.result.raised
             THEN made
             ELSE create_new_vouchers(made.vouchers, Append(created, made.result.value),
                                      i + 1, args, offers, multi_offer, generated)

\* what stays in the tables when the call raises: create_vouchers opens no transaction,
\* so every row written before the exception stays
kept_on_raise_rolled_back(before, written) == before
kept_on_raise(before, written) == written

\* create_vouchers (lines 402-518): the tables after the call and its outcome
create_vouchers(tables, args, generated) ==
    LET checked == max_uses_check(args.voucher_type, args.max_uses)
        max_uses == converted_max_uses(args.max_uses)
        product_range == range_name(COUPON)
        ranges == tables.ranges \cup {product_range}
        multi_offer == args.voucher_type \in {MULTI_USE, ONCE_PER_CUSTOMER}
        num_of_offers == IF multi_offer THEN args.quantity ELSE 1
        offered == create_offers(tables.offers, <<>>, 0, num_of_offers, product_range,
                                 args.benefit, max_uses)
        made == create_new_vouchers(tables.vouchers, <<>>, 1, args, offered.result.value,
                                    multi_offer, generated)
    IN  IF checked # None
        THEN [tables |-> tables, result |-> checked]
        ELSE IF offered.result.raised
        THEN [tables |-> kept_on_raise(tables, [tables EXCEPT !.ranges = ranges,
                                                              !.offers = offered.offers]),
              result |-> offered.result]
        ELSE LET written == [ranges |-> ranges, offers |-> offered.offers,
                             vouchers |-> made.vouchers]
             IN  [tables |-> IF made.result.raised
                             THEN kept_on_raise(tables, written)
                             ELSE written,
                  result |-> made.result]

\* a voucher of an earlier coupon, with its offer
EarlierOffer ==
    OfferRow(offer_name(EARLIER_COUPON, [type |-> PERCENTAGE, value |-> Number(50)], 0),
             range_name(EARLIER_COUPON), [type |-> PERCENTAGE, value |-> Number(50)], None)
EarlierVoucher(code) == VoucherRowOf("earlier", code, SINGLE_USE, 1, 2, EarlierOffer)

NoTables == [ranges |-> {}, offers |-> <<>>, vouchers |-> <<>>]
TablesWith(code) ==
    [ranges |-> {range_name(EARLIER_COUPON)}, offers |-> (EarlierOffer :> 0),
     vouchers |-> <<EarlierVoucher(code)>>]
InitialTables == {NoTables, TablesWith(<<"a">>), TablesWith(<<"A", "B">>)}

CreateArgs ==
    [benefit : CreateBenefitArgs, code : {NoCode, <<"A">>, <<"a">>},
     end_datetime : DateArgs, start_datetime : DateArgs, max_uses : MaxUsesArgs,
     name : {"coupon"}, quantity : 1..MaxQuantity, voucher_type : Usages]

InitCreate ==
    /\ db \in InitialTables
    /\ \E args \in CreateArgs :
          ccall = [called |-> FALSE, args |-> args, before |-> db, result |-> None,
                   recorded |-> 0]
    /\ dcall = None
    /\ gcall = None
    /\ NoViews
    /\ NoOthers

\* the arguments pass every check made before a voucher is written
passes_checks(args) ==
    /\ max_uses_check(args.voucher_type, args.max_uses) = None
    /\ args.benefit.value # None
    /\ enrollment_code_check([benefit |-> args.benefit], args.code) = None
    /\ datetime_check(args.end_datetime, "end datetime") = None
    /\ datetime_check(args.start_datetime, "start datetime") = None

\* the codes _generate_code_string hands to the vouchers of one call when no code is
\* supplied (line 368): each is unused when it is generated.  A code generated for a
\* voucher that is never written leaves no trace.
GeneratedFor(vouchers, args) ==
    IF args.code # NoCode \/ ~passes_checks(args)
    THEN {[i \in 1..args.quantity |-> NoCode]}
    ELSE {g \in [1..args.quantity -> generated_codes(VOUCHER_CODE_LENGTH)] :
             /\ \A i \in 1..args.quantity : ~code_exists(codes_of(vouchers), g[i])
             /\ \A i, j \in 1..args.quantity : i # j => ~iexact(g[i], g[j])}

CreateVouchers ==
    /\ ~ccall.called
    /\ \E generated \in GeneratedFor(db.vouchers, ccall.args) :
          LET out == create_vouchers(db, ccall.args, generated)
          IN  /\ db' = out.tables
              /\ ccall' = [ccall EXCEPT !.called = TRUE, !.result = out.result]
    /\ UNCHANGED <<others, vcall, clock, voucher, product, baskets, orders, req, dcall, gcall>>

\* ConditionalOffer.record_usage: one more application of the offer
record_offer_usage(offers, offer) == [offers EXCEPT ![offer] = @ + 1]

\* a usage is recorded on the offer of the i-th voucher the call returned
RecordUsage ==
    /\ ccall.called
    /\ ~ccall.result.raised
    /\ ccall.recorded = 0
    /\ \E i \in DOMAIN ccall.result.value :
          \E offer \in ccall.result.value[i].offers :
              /\ db' = [db EXCEPT !.offers = record_offer_usage(db.offers, offer)]
              /\ ccall' = [ccall EXCEPT !.recorded = i]
    /\ UNCHANGED <<others, vcall, clock, voucher, product, baskets, orders, req, dcall, gcall>>

NextCreate == CreateVouchers \/ RecordUsage

SpecCreate == InitCreate /\ [][NextCreate]_vars

-----------------------------------------------------------------------------
(* get_cached_voucher (ecommerce/extensions/voucher/utils.py) *)

\* the clock of the cache runs over 0..MaxClock
MaxClock == 4
\* settings.VOUCHER_CACHE_TIMEOUT, in clock ticks
VOUCHER_CACHE_TIMEOUT == 2
\* the Voucher row is rewritten at most MaxVersion times
MaxVersion == 2

\* the codes get_cached_voucher is asked for; no voucher ever has the second
CachedCodes == {COUPON_CODE, "NOSUCHCODE"}

\* hashlib.md5('voucher_{code}').hexdigest() (lines 605-606): one key per code
cache_key(code) == [md5 |-> <<"voucher_", code>>]
CacheKeys == {cache_key(code) : code \in CachedCodes}

\* a Voucher row as the store holds it at some moment
StoredVoucher(code, version) == [code |-> code, version |-> version]

\* cache.set(key, value, timeout) at time now: the entry lives while now < expires
cache_expiry_doubled(now) == now + 2 * VOUCHER_CACHE_TIMEOUT
cache_expiry(now) == now + VOUCHER_CACHE_TIMEOUT
cache_set(entries, key, value, now) ==
    [entries EXCEPT ![key] = [value |-> value, expires |-> cache_expiry(now), set_at |-> now]]

\* cache.get(key) at time now: the value of a live entry, else None
cache_get(entries, key, now) ==
    IF entries[key] # None /\ now < entries[key].expires
    THEN entries[key].value
    ELSE None

\* Voucher.DoesNotExist raised by Voucher.objects.get(code=code)
DoesNotExist == [raised |-> TRUE, exc |-> "Voucher.DoesNotExist", msg |-> "code"]

\* get_cached_voucher (lines 591-611): the cache entries after the call and its outcome,
\* with whether the store was read and when the returned row was read from the store
get_cached_voucher(entries, store, code, now) ==
    LET key == cache_key(code)
        cached == cache_get(entries, key, now)
    IN  IF cached # None
        THEN [entries |-> entries, result |-> Return(cached), read_store |-> FALSE,
              read_at |-> entries[key].set_at]
        ELSE IF store[code] = None
        THEN [entries |-> entries, result |-> DoesNotExist, read_store |-> TRUE,
              read_at |-> now]
        ELSE [entries |-> cache_set(entries, key, store[code], now),
              result |-> Return(store[code]), read_store |-> TRUE, read_at |-> now]

InitCache ==
    /\ \E row \in {None, StoredVoucher(COUPON_CODE, 0)} :
          cache = [store |-> [code \in CachedCodes |->
                                  IF code = COUPON_CODE THEN row ELSE None],
                   entries |-> [key \in CacheKeys |-> None],
                   last |-> None]
    /\ csvcall = None
    /\ catalogue = None
    /\ bcall = None
    /\ NoViews
    /\ NoUtils

\* a caller asks for the voucher of a code
GetCachedVoucher ==
    /\ \E code \in CachedCodes :
          LET out == get_cached_voucher(cache.entries, cache.store, code, clock)
          IN  cache' = [cache EXCEPT
                  !.entries = out.entries,
                  !.last = [code |-> code, at |-> clock, result |-> out.result,
                            read_store |-> out.read_store, read_at |-> out.read_at,
                            entry_before |-> cache.entries[cache_key(code)],
                            stored |-> cache.store[code]]]
    /\ UNCHANGED <<vcall, clock, voucher, product, baskets, orders, req, utils,
                   csvcall, catalogue, bcall>>

\* the Voucher row of the coupon code is saved again, created or deleted
WriteVoucher ==
    /\ \E row \in {None} \cup {StoredVoucher(COUPON_CODE, n) : n \in 0..MaxVersion} :
          /\ row # cache.store[COUPON_CODE]
          /\ cache.store[COUPON_CODE] # None /\ row # None
                 => row.version = cache.store[COUPON_CODE].version + 1
          /\ cache' = [cache EXCEPT !.store[COUPON_CODE] = row]
    /\ UNCHANGED <<vcall, clock, voucher, product, baskets, orders, req, utils,
                   csvcall, catalogue, bcall>>

\* time passes
TickCache ==
    /\ clock < MaxClock
    /\ clock' = clock + 1
    /\ UNCHANGED <<vcall, voucher, product, baskets, orders, req, utils, others>>

NextCache == GetCachedVoucher \/ WriteVoucher \/ TickCache

SpecCache == InitCache /\ [][NextCache]_vars

-----------------------------------------------------------------------------
(* EnrollmentCodeCsvView.get (ecommerce/coupons/views.py) *)

\* an order holds at most MaxLines lines with enrollment codes
MaxLines == 2

ORDER_NUMBER == "EDX-100001"
UNKNOWN_ORDER_NUMBER == "INVALID"
\* get_ecommerce_url(reverse('coupons:offer'))
REDEEM_URL == "ecommerce.server/coupons/offer/"

\* the codes of the vouchers of one order line, and the OrderLineVouchers rows of an order
LineCodes == {<<>>, <<"J4HDI5OA">>, <<"J4HDI5OA", "OZCRR6WX">>}
OrderLineVouchersRows == [title : {"Seat in Demo"}, vouchers : LineCodes]
LinesOfOrders == UNION {[1..n -> OrderLineVouchersRows] : n \in 0..MaxLines}

Http404 == [raised |-> TRUE, exc |-> "Http404", msg |-> "Order not found."]
PermissionDenied == [raised |-> TRUE, exc |-> "PermissionDenied", msg |-> ""]
\* login_required sends a user who is not logged in to the login page
RedirectToLogin == [raised |-> FALSE, status |-> 302, content_type |-> "", rows |-> <<>>]
CsvResponse(rows) == [raised |-> FALSE, status |-> 200, content_type |-> "text/csv", rows |-> rows]

\* the rows written for one OrderLineVouchers row (lines 302-311)
RECURSIVE voucher_rows(_)
voucher_rows(codes) ==
    IF codes = <<>>
    THEN <<>>
    ELSE <<(<<Head(codes), <<REDEEM_URL, "?code=", Head(codes)>> >>)>> \o voucher_rows(Tail(codes))

line_rows(order_line_voucher) ==
    <<(<<order_line_voucher.title>>), <<"Code", "Redemption URL">> >>
        \o voucher_rows(order_line_voucher.vouchers) \o << <<>> >>

RECURSIVE lines_rows(_)
lines_rows(order_line_vouchers) ==
    IF order_line_vouchers = <<>>
    THEN <<>>
    ELSE line_rows(Head(order_line_vouchers)) \o lines_rows(Tail(order_line_vouchers))

\* the test of line 284
permission_denied_only_for_staff(user, is_staff, order) == user # order.user /\ is_staff
permission_denied(user, is_staff, order) == user # order.user /\ ~is_staff

\* EnrollmentCodeCsvView.get behind dispatch (lines 247-312)
enrollment_code_csv(order_table, user, is_staff, number) ==
    IF ~is_authenticated(user)
    THEN RedirectToLogin
    ELSE IF \A o \in order_table : o.number # number
    THEN Http404
    ELSE LET order == CHOOSE o \in order_table : o.number = number
         IN  IF permission_denied(user, is_staff, order)
             THEN PermissionDenied
             ELSE CsvResponse(<< <<"Order Number:", order.number>>, <<>> >>
                                  \o lines_rows(order.lines))

InitCsv ==
    /\ \E owner \in Users, lines \in LinesOfOrders, user \in Users \cup {AnonymousUser},
          is_staff \in BOOLEAN, number \in {ORDER_NUMBER, UNKNOWN_ORDER_NUMBER} :
          /\ user = AnonymousUser => ~is_staff
          /\ csvcall = [called |-> FALSE,
                        orders |-> {[number |-> ORDER_NUMBER, user |-> owner, lines |-> lines]},
                        user |-> user, is_staff |-> is_staff, number |-> number,
                        response |-> None]
    /\ cache = None
    /\ catalogue = None
    /\ bcall = None
    /\ NoViews
    /\ NoUtils

GetEnrollmentCodeCsv ==
    /\ ~csvcall.called
    /\ csvcall' = [csvcall EXCEPT
           !.called = TRUE,
           !.response = enrollment_code_csv(csvcall.orders, csvcall.user, csvcall.is_staff,
                                            csvcall.number)]
    /\ UNCHANGED <<vcall, clock, voucher, product, baskets, orders, req, utils,
                   cache, catalogue, bcall>>

NextCsv == GetEnrollmentCodeCsv

SpecCsv == InitCsv /\ [][NextCsv]_vars

-----------------------------------------------------------------------------
(* create_coupon_product (ecommerce/extensions/catalogue/utils.py) *)

\* the parameters of create_vouchers (voucher/utils.py:402-420) and those with no default
create_vouchers_parameters ==
    {"benefit_type", "benefit_value", "catalog", "coupon", "end_datetime",
     "enterprise_customer", "name", "quantity", "start_datetime", "voucher_type", "code",
     "max_uses", "_range", "catalog_query", "course_seat_types", "email_domains",
     "course_catalog"}
create_vouchers_required ==
    {"benefit_type", "benefit_value", "catalog", "coupon", "end_datetime",
     "enterprise_customer", "name", "quantity", "start_datetime", "voucher_type"}

\* the keyword arguments of the call at catalogue/utils.py:85-103
create_vouchers_keywords ==
    {"benefit_type", "benefit_value", "catalog", "catalog_query", "code", "coupon",
     "course_catalog", "course_seat_types", "email_domains", "end_datetime",
     "enterprise_customer", "max_uses", "name", "quantity", "start_datetime",
     "voucher_type", "program_uuid"}

TypeError == [raised |-> TRUE, exc |-> "TypeError", msg |-> "unexpected keyword argument"]

\* a call by keywords binds when every keyword is a parameter and no required one is missing
call_binds(keywords, parameters, required) ==
    keywords \subseteq parameters /\ required \subseteq keywords

CouponPrices == {0, 100}

\* the coupon product of line 77 and the rows written for it
CouponProduct(title) == [title |-> title, product_class |-> "Coupon"]
StockRecordOf(coupon_product, price) == [product |-> coupon_product, price_excl_tax |-> price]

\* create_coupon_product (lines 22-125) on the tables [products, categories,
\* coupon_vouchers, stock_records, vouchers (the tables of create_vouchers)]
create_coupon_product(tables, args, generated) ==
    LET coupon_product == CouponProduct(args.title)
        started == [tables EXCEPT !.products = @ \cup {coupon_product},
                                  !.categories = @ \cup {coupon_product}]
        out == create_vouchers(tables.vouchers,
                   [benefit |-> args.benefit, code |-> args.code,
                    end_datetime |-> args.end_datetime,
                    start_datetime |-> args.start_datetime, max_uses |-> args.max_uses,
                    name |-> args.title, quantity |-> args.quantity,
                    voucher_type |-> args.voucher_type],
                   generated)
    IN  IF ~call_binds(create_vouchers_keywords, create_vouchers_parameters,
                       create_vouchers_required)
        THEN [tables |-> started, result |-> TypeError]
        ELSE IF out.result.raised
        THEN [tables |-> [started EXCEPT !.vouchers = out.tables], result |-> out.result]
        ELSE [tables |-> [started EXCEPT
                              !.vouchers = out.tables,
                              !.coupon_vouchers = @ \cup
                                  {[coupon |-> coupon_product, vouchers |-> out.result.value]},
                              !.stock_records = @ \cup
                                  {StockRecordOf(coupon_product, args.price)}],
              result |-> Return(coupon_product)]

CouponArgs ==
    [benefit : {b \in CreateBenefitArgs : b.value # None}, code : {NoCode, <<"A">>},
     end_datetime : {Datetime(2)}, start_datetime : {Datetime(1)}, max_uses : {None},
     title : {"coupon"}, quantity : 1..MaxQuantity, voucher_type : Usages,
     price : CouponPrices]

InitCoupon ==
    /\ \E args \in CouponArgs, vouchers \in InitialTables :
          catalogue = [called |-> FALSE, args |-> args,
                       tables |-> [products |-> {}, categories |-> {},
                                   coupon_vouchers |-> {}, stock_records |-> {},
                                   vouchers |-> vouchers],
                       result |-> None]
    /\ cache = None
    /\ csvcall = None
    /\ bcall = None
    /\ NoViews
    /\ NoUtils

CreateCouponProduct ==
    /\ ~catalogue.called
    /\ \E generated \in GeneratedFor(catalogue.tables.vouchers.vouchers, catalogue.args) :
          LET out == create_coupon_product(catalogue.tables, catalogue.args, generated)
          IN  catalogue' = [catalogue EXCEPT !.called = TRUE, !.tables = out.tables,
                                             !.result = out.result]
    /\ UNCHANGED <<vcall, clock, voucher, product, baskets, orders, req, utils,
                   cache, csvcall, bcall>>

NextCoupon == CreateCouponProduct

SpecCoupon == InitCoupon /\ [][NextCoupon]_vars

-----------------------------------------------------------------------------
(* prepare_basket (ecommerce/extensions/basket/utils.py), as its tests and the
   specification describe it *)

Basket_OPEN == "Open"
SEAT == "seat"
OTHER_SEAT == "other seat"
ENROLLMENT_CODE == "enrollment code"
BasketProducts == {SEAT, ENROLLMENT_CODE}
\* the percentage of the benefit of the voucher's offer
BasketPercentages == {0, 10, 50, 100}
EARLIER_VOUCHER == "FIRST"
BASKET_VOUCHER == "SECOND"

RatAdd(a, b) == Rat(a.num * b.den + b.num * a.den, a.den * b.den)
RatSub(a, b) == Rat(a.num * b.den - b.num * a.den, a.den * b.den)

BasketLine(item, price) == [product |-> item, price_excl_tax |-> price, quantity |-> 1]

\* the discount a percentage benefit gives on a line: value / 100 of the line's price
line_discount_of_whole_units(line, percentage) == Rat(percentage * line.quantity, 100)
line_discount(line, percentage) == Rat(percentage * line.price_excl_tax * line.quantity, 100)

\* the discounts of the basket's vouchers on the lines their offers' ranges hold
RECURSIVE total_discount(_, _, _)
total_discount(lines, vouchers, offer) ==
    IF lines = <<>>
    THEN Rat(0, 1)
    ELSE RatAdd(IF vouchers # {} /\ Head(lines).product \in offer.range
                THEN line_discount(Head(lines), offer.percentage)
                ELSE Rat(0, 1),
                total_discount(Tail(lines), vouchers, offer))

RECURSIVE total_excl_tax_excl_discounts(_)
total_excl_tax_excl_discounts(lines) ==
    IF lines = <<>>
    THEN Rat(0, 1)
    ELSE RatAdd(Rat(Head(lines).price_excl_tax * Head(lines).quantity, 1),
                total_excl_tax_excl_discounts(Tail(lines)))

\* a basket with its totals after the offers were applied
BasketOf(lines, vouchers, offer) ==
    [status |-> Basket_OPEN, lines |-> lines, vouchers |-> vouchers,
     total_discount |-> total_discount(lines, vouchers, offer),
     total_excl_tax |-> RatSub(total_excl_tax_excl_discounts(lines),
                               total_discount(lines, vouchers, offer))]

\* prepare_basket(request, [product], voucher): the user's open basket is emptied and gets
\* one line for the product; its vouchers are replaced by the given voucher, and a
\* basket that holds an enrollment code takes no voucher
prepare_basket_with_voucher(basket, item, price, new_voucher, offer) ==
    LET lines == <<BasketLine(item, price)>>
        vouchers == IF item = ENROLLMENT_CODE
                    THEN {}
                    ELSE IF new_voucher # "" THEN {new_voucher} ELSE basket.vouchers
    IN  BasketOf(lines, vouchers, offer)

\* the user's basket before the call
EarlierBaskets ==
    {BasketOf(<<>>, {}, [range |-> {}, percentage |-> 0]),
     BasketOf(<<BasketLine(OTHER_SEAT, 50)>>, {}, [range |-> {}, percentage |-> 0]),
     BasketOf(<<BasketLine(OTHER_SEAT, 50)>>, {EARLIER_VOUCHER},
              [range |-> {OTHER_SEAT}, percentage |-> 100])}

\* the offers of the voucher: a percentage benefit on a range of seats
BasketOffers == [range : {{}, {SEAT}, {SEAT, OTHER_SEAT}}, percentage : BasketPercentages]

InitBasket ==
    /\ \E basket \in EarlierBaskets, item \in BasketProducts, price \in 0..MaxPrice,
          new_voucher \in {"", BASKET_VOUCHER}, offer \in BasketOffers :
          /\ new_voucher = "" => (basket.vouchers = {} /\ offer.range = {})
          /\ bcall = [called |-> FALSE, before |-> basket, product |-> item,
                      price |-> price, voucher |-> new_voucher, offer |-> offer,
                      basket |-> None]
    /\ cache = None
    /\ csvcall = None
    /\ catalogue = None
    /\ NoViews
    /\ NoUtils

PrepareBasketWithVoucher ==
    /\ ~bcall.called
    /\ bcall' = [bcall EXCEPT
           !.called = TRUE,
           !.basket = prepare_basket_with_voucher(bcall.before, bcall.product, bcall.price,
                                                  bcall.voucher, bcall.offer)]
    /\ UNCHANGED <<vcall, clock, voucher, product, baskets, orders, req, utils,
                   cache, csvcall, catalogue>>

NextBasket == PrepareBasketWithVoucher

SpecBasket == InitBasket /\ [][NextBasket]_vars

-----------------------------------------------------------------------------
(* get_or_create_catalog (ecommerce/extensions/catalogue/utils.py) *)

\* the number of get_or_create_catalog calls of a behaviour
MaxCalls == 3

CatalogNames == {"catalog a", "catalog b"}
Partners == {"edX", "other"}
\* the ids of the StockRecord table, and an id it does not hold
StockRecordTable == {1, 2}
UNKNOWN_STOCK_RECORD == 3
StockRecordIdArgs == {<<>>, <<1>>, <<2>>, <<1, 2>>, <<2, 1>>, <<1, 1>>, <<UNKNOWN_STOCK_RECORD>>}

StockRecordDoesNotExist ==
    [raised |-> TRUE, exc |-> "StockRecord.DoesNotExist", msg |-> ""]

\* set(stock_records)
set(list) == {list[i] : i \in DOMAIN list}

CatalogRow(id, name, partner, stock_records, created_here) ==
    [id |-> id, name |-> name, partner |-> partner, stock_records |-> stock_records,
     created_here |-> created_here]

\* the test of lines 174-175
same_catalog_ignoring_records(catalog, name, partner, stock_records) ==
    catalog.name = name /\ catalog.partner = partner
same_catalog(catalog, name, partner, stock_records) ==
    /\ catalog.name = name /\ catalog.partner = partner
    /\ catalog.stock_records = set(stock_records)

\* get_or_create_catalog (lines 165-181) on the Catalog table, a sequence in the order
\* Catalog.objects.all() yields
get_or_create_catalog(catalogs, name, partner, stock_record_ids) ==
    LET matches == {i \in DOMAIN catalogs :
                       same_catalog(catalogs[i], name, partner, stock_record_ids)}
        first == CHOOSE i \in matches : \A j \in matches : i <= j
        created == CatalogRow(Len(catalogs) + 1, name, partner, set(stock_record_ids), TRUE)
    IN  IF ~(set(stock_record_ids) \subseteq StockRecordTable)
        THEN [catalogs |-> catalogs, result |-> StockRecordDoesNotExist]
        ELSE IF matches # {}
        THEN [catalogs |-> catalogs, result |-> Return(<<catalogs[first], FALSE>>)]
        ELSE [catalogs |-> Append(catalogs, created), result |-> Return(<<created, TRUE>>)]

CatalogKeys == CatalogNames \X Partners \X (SUBSET StockRecordTable)
CatalogKey(name, partner, stock_record_ids) == <<name, partner, set(stock_record_ids)>>

\* the Catalog table before the first call: empty, or one catalog made elsewhere
CatalogTables ==
    {<<>>} \cup {<<CatalogRow(1, "catalog a", "edX", records, FALSE)>> :
                    records \in {{}, {1}, {1, 2}}}

InitCatalog ==
    /\ \E catalogs \in CatalogTables :
          catalogue = [catalogs |-> catalogs, calls |-> 0, last |-> None,
                       first_returned |-> [k \in CatalogKeys |-> 0]]
    /\ cache = None
    /\ csvcall = None
    /\ bcall = None
    /\ NoViews
    /\ NoUtils

GetOrCreateCatalog ==
    /\ catalogue.calls < MaxCalls
    /\ \E name \in CatalogNames, partner \in Partners, stock_record_ids \in StockRecordIdArgs :
          LET out == get_or_create_catalog(catalogue.catalogs, name, partner,
                                           stock_record_ids)
              key == CatalogKey(name, partner, stock_record_ids)
          IN  catalogue' =
                  [catalogs |-> out.catalogs,
                   calls |-> catalogue.calls + 1,
                   last |-> [name |-> name, partner |-> partner,
                             stock_record_ids |-> stock_record_ids,
                             before |-> catalogue.catalogs, result |-> out.result],
                   first_returned |->
                       IF out.result.raised \/ catalogue.first_returned[key] # 0
                       THEN catalogue.first_returned
                       ELSE [catalogue.first_returned EXCEPT ![key] = out.result.value[1].id]]
    /\ UNCHANGED <<vcall, clock, voucher, product, baskets, orders, req, utils,
                   cache, csvcall, bcall>>

NextCatalog == GetOrCreateCatalog

SpecCatalog == InitCatalog /\ [][NextCatalog]_vars

-----------------------------------------------------------------------------
(* Properties of voucher_is_valid (SpecValid) *)

Called == vcall # None /\ vcall.called

\* the latest clock value the call read
LastNow(c) == IF is_active(c.voucher, c.now1) THEN c.now1 ELSE c.now2

WindowOpen(c) == c.voucher.start_datetime <= LastNow(c) /\ LastNow(c) <= c.voucher.end_datetime

ProductOk(c) == Len(c.products) # 1 \/ c.products[1].is_available_to_buy

OfferOk(c) ==
    /\ c.voucher.offer # None
    /\ \/ c.voucher.offer.max_global_applications = 0
       \/ c.voucher.offer.num_applications < c.voucher.offer.max_global_applications

UsedBy(c, u) == c.voucher.usage # MULTI_USE /\ c.voucher.applications[u] > 0

NotYetValid == Returned(FALSE, "This coupon code is not yet valid.")
AlreadyUsed == Returned(FALSE, "This coupon has already been used")
Valid == Returned(TRUE, "")

\* C1: a call on an existing voucher whose start_datetime is later than the clock
\* the call reads returns (False, 'This coupon code is not yet valid.'), whatever the
\* end_datetime, usage, offer, applications, products and request (None included).
C1_FutureVoucherNotYetValid ==
    Called =>
        (vcall.voucher # None /\ vcall.voucher.start_datetime > LastNow(vcall)
            => vcall.result = NotYetValid)

C1_Witness ==
    /\ Called
    /\ vcall.voucher # None
    /\ vcall.voucher.start_datetime > LastNow(vcall)
    /\ vcall.voucher.end_datetime < vcall.voucher.start_datetime
    /\ vcall.voucher.applications["u1"] > 0
    /\ vcall.request = None
    /\ vcall.result = NotYetValid

CheckOfResult(r) ==
    CASE r.raised -> "raised"
      [] r.valid -> "ok"
      [] r.msg = "Coupon does not exist." -> "a"
      [] r.msg = "This coupon code is not yet valid." -> "b"
      [] r.msg = "This coupon code has expired." -> "c"
      [] r.msg \in {"This coupon has already been used",
                    "You have already used this coupon in a previous order"} -> "d"
      [] r.msg = "Product not available for purchase." -> "e"
      [] r.msg = "This coupon code is no longer available." -> "f"
      [] OTHER -> "unknown"

\* the first check of the documented order that fails for the call's arguments
FirstFailingCheck(c) ==
    IF c.voucher = None THEN "a"
    ELSE IF c.voucher.start_datetime > LastNow(c) THEN "b"
    ELSE IF c.voucher.end_datetime < LastNow(c) THEN "c"
    ELSE IF is_authenticated(c.request.user) /\ UsedBy(c, c.request.user) THEN "d"
    ELSE IF ~ProductOk(c) THEN "e"
    ELSE IF ~OfferOk(c) THEN "f"
    ELSE "ok"

\* C5: for a request and a voucher with an offer, the call returns the message of
\* the first failing check in the order (a) no voucher, (b) not yet started,
\* (c) expired, (d) used by the logged-in user, (e) single product unavailable,
\* (f) offer exhausted, and (True, '') when none fails.
C5_ChecksInOrder ==
    Called =>
        (vcall.request # None /\ (vcall.voucher = None \/ vcall.voucher.offer # None)
            => CheckOfResult(vcall.result) = FirstFailingCheck(vcall))

C5_Witness ==
    /\ Called
    /\ vcall.voucher # None
    /\ vcall.request # None
    /\ vcall.voucher.offer # None
    /\ WindowOpen(vcall)
    /\ vcall.request.user = "u1"
    /\ UsedBy(vcall, "u1")
    /\ ~ProductOk(vcall)
    /\ ~OfferOk(vcall)
    /\ vcall.result = AlreadyUsed

\* C6: for a user who is not logged in the per-user usage check is skipped: a voucher
\* of any usage type passing the window, product and offer checks is (True, '')
\* whatever applications are recorded.
C6_AnonymousSkipsUserCheck ==
    Called =>
        ((/\ vcall.voucher # None
          /\ vcall.request # None
          /\ vcall.request.user = AnonymousUser
          /\ WindowOpen(vcall)
          /\ ProductOk(vcall)
          /\ OfferOk(vcall))
            => vcall.result = Valid)

C6_Witness ==
    /\ Called
    /\ vcall.voucher # None
    /\ vcall.request # None
    /\ vcall.request.user = AnonymousUser
    /\ vcall.voucher.usage = ONCE_PER_CUSTOMER
    /\ \A u \in Users : vcall.voucher.applications[u] > 0
    /\ vcall.result = Valid

-----------------------------------------------------------------------------
(* Properties of CouponRedeemView.get (SpecRedeem) *)

\* C3: a request whose free order is refused by the integrity constraint on
\* (voucher, user) ends with the rendered message 'This coupon has already been used'.
C3_RaceLoserSeesAlreadyUsed ==
    \A r \in ReqIds :
        (req[r].pc = "done" /\ req[r].place_error = "IntegrityError")
            => req[r].response = Render("This coupon has already been used")

C7_NoExceptionPropagates ==
    \A r \in ReqIds : req[r].response.kind # "raise"

\* every state before BASKET_PREPARED was passed
PassedAllChecks(q) ==
    /\ q.code # NoParam
    /\ q.sku # NoParam
    /\ q.voucher_found
    /\ q.product_found
    /\ q.valid_voucher
    /\ q.email_valid
    /\ q.is_active
    /\ q.consent \in {"not applicable", "not needed", "matched"}

\* C8: a request prepares a basket only from the state reached after code and sku
\* were received, voucher and product resolved, voucher_is_valid returned True, the
\* email-domain, active-account and consent checks passed; it places an order only
\* with a prepared basket; and a request ending at an earlier state has no basket,
\* no order and leaves baskets, orders and the voucher's usage untouched.
C8_StatesInOrder ==
    [][\A r \in ReqIds :
          /\ (req[r].basket = None /\ req'[r].basket # None)
                => (req[r].pc = "basket" /\ PassedAllChecks(req[r]))
          /\ (~req[r].order /\ req'[r].order)
                => (req[r].pc = "order" /\ req[r].basket # None)
          /\ (req[r].pc \in {"idle", "resolve", "validate", "eligible", "consent"}
              /\ req'[r].pc = "done")
                => /\ req'[r].basket = None
                   /\ ~req'[r].order
                   /\ UNCHANGED <<baskets, orders, voucher>>
          /\ (baskets' # baskets \/ orders' # orders \/ voucher' # voucher)
                => \E s \in ReqIds : req[s].pc \in {"basket", "order"} /\ req'[s] # req[s]
      ]_vars

\* a request went through the consent check, prepared its basket and placed the order
C8_Witness ==
    \E r \in ReqIds :
        /\ req[r].pc = "done"
        /\ req[r].consent = "matched"
        /\ req[r].basket # None
        /\ req[r].order

\* C9: a request that prepared its basket ends, for a total of 0, either with the
\* order placed and a redirect to its receipt page or, when placing it raised, with
\* the failure logged and a redirect to the checkout error page; for any other
\* total with no order placed and a redirect to the basket summary.
C9_AfterBasketPrepared ==
    \A r \in ReqIds :
        (req[r].pc = "done" /\ req[r].basket # None) =>
            IF req[r].basket.total_excl_tax = 0
            THEN \/ /\ req[r].order
                    /\ req[r].place_error = ""
                    /\ orders[req[r].user] > 0
                    /\ req[r].response = Redirect("receipt")
                 \/ /\ ~req[r].order
                    /\ req[r].place_error # ""
                    /\ req[r].logged
                    /\ req[r].response = Redirect("checkout:error")
            ELSE /\ ~req[r].order
                 /\ req[r].place_error = ""
                 /\ req[r].response = Redirect("basket:summary")

C9_Witness ==
    \E r \in ReqIds :
        /\ req[r].pc = "done"
        /\ req[r].basket # None
        /\ req[r].basket.total_excl_tax = 0
        /\ req[r].place_error = "Exception"
        /\ req[r].logged
        /\ req[r].response = Redirect("checkout:error")

\* C10: when the voucher's enterprise customer still needs the user's consent, a
\* request without consent_token is redirected to the consent URL, one with a token
\* other than the computed one renders 'Invalid data sharing consent token
\* provided.', both without basket or order; the request goes on to basket
\* preparation only with the computed token.
C10_ConsentGate ==
    \A r \in ReqIds :
        req[r].needs_consent =>
            /\ req[r].consent_token = NoParam
                  => /\ req[r].response = Redirect("consent")
                     /\ req[r].basket = None /\ ~req[r].order
            /\ req[r].consent_token \notin {NoParam, consent_token_of(req[r].user)}
                  => /\ req[r].response = Render("Invalid data sharing consent token provided.")
                     /\ req[r].basket = None /\ ~req[r].order
            /\ (req[r].pc \in {"basket", "order"} \/ req[r].basket # None)
                  => req[r].consent_token = consent_token_of(req[r].user)

C10_Witness ==
    \E r \in ReqIds :
        /\ req[r].needs_consent
        /\ req[r].consent_token \notin {NoParam, consent_token_of(req[r].user)}
        /\ req[r].pc = "done"
        /\ req[r].response = Render("Invalid data sharing consent token provided.")

-----------------------------------------------------------------------------
(* Properties of get_voucher_discount_info (SpecDiscount) *)

DiscountCalled == dcall.called
PositivePrice == dcall.price # None /\ dcall.price.amount > 0
PercentageBenefit == dcall.benefit # None /\ dcall.benefit.type = PERCENTAGE
FixedBenefit == dcall.benefit # None /\ dcall.benefit.type # PERCENTAGE

\* C11: a percentage benefit of value 100 on any price > 0 yields discount_value equal
\* to the price, discount_percentage 100 and is_discounted False.
C11_FullPercentageNotDiscounted ==
    (DiscountCalled /\ PercentageBenefit /\ dcall.benefit.value = 100 /\ PositivePrice)
        => /\ RatEq(dcall.result.discount_value, Rat(dcall.price.amount, 1))
           /\ RatEq(dcall.result.discount_percentage, Rat(100, 1))
           /\ dcall.result.is_discounted = FALSE

C11_Witness ==
    /\ DiscountCalled
    /\ PercentageBenefit
    /\ dcall.benefit.value = 100
    /\ PositivePrice
    /\ dcall.price.amount > 1
    /\ ~dcall.result.is_discounted

\* C12: a fixed benefit of value v on a price p > 0 yields discount_percentage equal to
\* min(100, v/p*100) and discount_value equal to min(p, v), and is_discounted is True
\* exactly when v < p.
C12_FixedBenefitCapped ==
    (DiscountCalled /\ FixedBenefit /\ PositivePrice)
        => LET v == dcall.benefit.value
               p == dcall.price.amount
           IN  /\ RatEq(dcall.result.discount_percentage,
                        RatMin(Rat(100, 1), Rat(v * 100, p)))
               /\ RatEq(dcall.result.discount_value, Rat(Min(p, v), 1))
               /\ dcall.result.is_discounted = (v < p)

C12_Witness ==
    /\ DiscountCalled
    /\ FixedBenefit
    /\ PositivePrice
    /\ dcall.benefit.value > dcall.price.amount
    /\ RatEq(dcall.result.discount_percentage, Rat(100, 1))
    /\ RatEq(dcall.result.discount_value, Rat(dcall.price.amount, 1))

\* C13 as stated: a percentage benefit of value v on a price p > 0 yields discount_value
\* equal to p*v/100, and for every v, also v > 100, discount_percentage is at most 100
\* and discount_value at most p.
C13_PercentageCappedForEveryValue ==
    (DiscountCalled /\ PercentageBenefit /\ PositivePrice)
        => LET v == dcall.benefit.value
               p == dcall.price.amount
           IN  /\ RatEq(dcall.result.discount_value, Rat(p * v, 100))
               /\ RatLeq(dcall.result.discount_percentage, Rat(100, 1))
               /\ RatLeq(dcall.result.discount_value, Rat(p, 1))

\* C13 as the code has it: a percentage benefit of value v on a price p > 0 yields
\* discount_percentage equal to v and discount_value equal to p*v/100, with no cap: they
\* are at most 100 and at most p exactly when v <= 100.
C13_PercentageUncapped ==
    (DiscountCalled /\ PercentageBenefit /\ PositivePrice)
        => LET v == dcall.benefit.value
               p == dcall.price.amount
           IN  /\ RatEq(dcall.result.discount_value, Rat(p * v, 100))
               /\ RatEq(dcall.result.discount_percentage, Rat(v, 1))
               /\ RatLeq(dcall.result.discount_percentage, Rat(100, 1)) = (v <= 100)
               /\ RatLeq(dcall.result.discount_value, Rat(p, 1)) = (v <= 100)

C13_Witness ==
    /\ DiscountCalled
    /\ PercentageBenefit
    /\ PositivePrice
    /\ dcall.benefit.value > 100
    /\ RatLess(Rat(dcall.price.amount, 1), dcall.result.discount_value)

\* C14: whenever the benefit is missing, or the price is missing, zero or negative, the
\* call returns the zero-discount result (0, 0, False); it raises nothing.
C14_ZeroDiscountResult ==
    (DiscountCalled /\ (dcall.benefit = None \/ dcall.price = None \/ dcall.price.amount <= 0))
        => dcall.result = zero_discount_info

C14_Witness ==
    /\ DiscountCalled
    /\ dcall.benefit # None
    /\ dcall.benefit.value > 0
    /\ dcall.price = None
    /\ dcall.result = zero_discount_info

-----------------------------------------------------------------------------
(* Properties of _generate_code_string (SpecGenerate) *)

\* C15: with length >= 1 the call never returns a code that equals, ignoring case, the
\* code of a voucher of the table: it goes on to generate a new code exactly when the
\* one it generated collides, and returns the first generated code that is unused; with
\* length < 1 it raises ValueError and generates nothing.
C15_GeneratedCodeIsUnused ==
    /\ gcall.pc = "returned"
           => /\ gcall.length >= 1
              /\ gcall.result = [code |-> gcall.voucher_code]
              /\ Len(gcall.voucher_code) = gcall.length
              /\ \A c \in gcall.vouchers : ~iexact(c, gcall.result.code)
    /\ gcall.pc = "retry"
           => \E c \in gcall.vouchers : iexact(c, gcall.voucher_code)
    /\ gcall.pc = "raised"
           => /\ gcall.length < 1
              /\ gcall.result = Raised("ValueError")
              /\ gcall.depth = 0
              /\ gcall.voucher_code = <<>>
    /\ (gcall.length < 1 /\ gcall.pc # "start") => gcall.pc = "raised"

\* a code is returned after a collision with a voucher whose code differs only in case
C15_Witness ==
    /\ gcall.pc = "returned"
    /\ gcall.depth > 1
    /\ \E c \in gcall.vouchers : c # Upper(c)
    /\ \A c \in gcall.vouchers : ~iexact(c, gcall.result.code)

-----------------------------------------------------------------------------
(* Properties of create_vouchers (SpecCreate) *)

CreateCalled == ccall.called
CreateReturned == ccall.called /\ ~ccall.result.raised
CreateRaised(exc) == ccall.called /\ ccall.result.raised /\ ccall.result.exc = exc
\* the Voucher rows the call wrote
NewVouchers ==
    SubSeq(db.vouchers, Len(ccall.before.vouchers) + 1, Len(db.vouchers))
\* the call returned the quantity vouchers it wrote, each linked to one offer
ReturnedQuantityVouchers ==
    /\ CreateReturned
    /\ Len(ccall.result.value) = ccall.args.quantity
    /\ ccall.result.value = NewVouchers
    /\ \A i \in DOMAIN ccall.result.value :
           /\ Cardinality(ccall.result.value[i].offers) = 1
           /\ ccall.result.value[i].offers \subseteq DOMAIN db.offers
\* a valid benefit, valid dates, a max_uses the usage type allows, and no explicit code
\* that an enrollment coupon forbids or that a voucher of the table already has
ValidCreateArgs ==
    /\ passes_checks(ccall.args)
    /\ ~code_exists(codes_of(ccall.before.vouchers), ccall.args.code)

\* C16 as stated: a call with valid benefit, dates and usage type creates and returns
\* exactly quantity vouchers, each linked to exactly one offer, for every quantity >= 1
\* and usage type, whether the codes are generated or an explicit code is supplied.
C16_ExactlyQuantityVouchers ==
    (CreateCalled /\ ValidCreateArgs) => ReturnedQuantityVouchers

\* C16 as the code has it: such a call creates and returns exactly quantity vouchers,
\* each linked to exactly one offer, when the codes are generated or quantity is 1; with
\* an explicit code and quantity >= 2 the second voucher repeats the code of the first,
\* and the call ends with the integrity error after writing one voucher.
C16_QuantityVouchersUnlessCodeRepeats ==
    (CreateCalled /\ ValidCreateArgs)
        => IF ccall.args.code = NoCode \/ ccall.args.quantity = 1
           THEN ReturnedQuantityVouchers
           ELSE CreateRaised("IntegrityError") /\ Len(NewVouchers) = 1

C16_Witness ==
    /\ CreateCalled
    /\ ValidCreateArgs
    /\ ccall.args.code = NoCode
    /\ ccall.args.quantity >= 2
    /\ ccall.before.vouchers # <<>>
    /\ ReturnedQuantityVouchers

\* the applications recorded on an offer before the call and any recording after it
ApplicationsBefore(offer) ==
    IF offer \in DOMAIN ccall.before.offers THEN ccall.before.offers[offer] ELSE 0

\* C17: in one call with usage MULTI_USE or ONCE_PER_CUSTOMER the vouchers are linked to
\* pairwise distinct offers, voucher i to the offer numbered i, so a usage recorded on one
\* voucher's offer leaves the applications of every other voucher's offer as they were;
\* with SINGLE_USE all vouchers of the call share one offer.
C17_OneOfferPerMultiUseVoucher ==
    CreateReturned
        => LET made == ccall.result.value
           IN  IF ccall.args.voucher_type \in {MULTI_USE, ONCE_PER_CUSTOMER}
               THEN /\ \A i \in DOMAIN made : \A o \in made[i].offers : o.name.suffix = i - 1
                    /\ \A i, j \in DOMAIN made :
                           i # j => made[i].offers \cap made[j].offers = {}
                    /\ \A i, j \in DOMAIN made :
                           (ccall.recorded = i /\ j # i)
                               => \A o \in made[j].offers : db.offers[o] = ApplicationsBefore(o)
               ELSE /\ \A i, j \in DOMAIN made : made[i].offers = made[j].offers
                    /\ \A j \in DOMAIN made :
                           ccall.recorded # 0
                               => \A o \in made[j].offers :
                                      db.offers[o] = ApplicationsBefore(o) + 1

C17_Witness ==
    /\ CreateReturned
    /\ ccall.args.voucher_type = ONCE_PER_CUSTOMER
    /\ ccall.args.quantity >= 2
    /\ ccall.recorded = 1
    /\ \A o \in ccall.result.value[1].offers : db.offers[o] = 1
    /\ \A o \in ccall.result.value[2].offers : db.offers[o] = 0

RejectedDate(value) == value \in {None, EmptyString, BadDateString, NotADateString}
\* the call gets as far as _create_new_voucher
ReachesNewVoucher ==
    /\ max_uses_check(ccall.args.voucher_type, ccall.args.max_uses) = None
    /\ ccall.args.benefit.value # None

\* C19: _create_new_voucher raises a validation error and creates no voucher whenever
\* start_datetime or end_datetime is missing (None or empty) or is a value that is no
\* datetime and cannot be parsed; a parseable date string is accepted and stored as the
\* datetime it parses to.
C19_DatesValidatedAndParsed ==
    /\ (CreateCalled /\ ReachesNewVoucher
            /\ (RejectedDate(ccall.args.start_datetime) \/ RejectedDate(ccall.args.end_datetime)))
           => CreateRaised("ValidationError") /\ NewVouchers = <<>>
    /\ (CreateCalled /\ ValidCreateArgs /\ ccall.args.quantity = 1)
           => CreateReturned
    /\ CreateCalled
           => \A i \in DOMAIN NewVouchers, t \in CreateTimes :
                  /\ ccall.args.start_datetime \in {DateString(t), Datetime(t)}
                         => NewVouchers[i].start_datetime = t
                  /\ ccall.args.end_datetime \in {DateString(t), Datetime(t)}
                         => NewVouchers[i].end_datetime = t

C19_Witness ==
    /\ CreateReturned
    /\ ccall.args.start_datetime = DateString(1)
    /\ ccall.args.end_datetime = Datetime(2)
    /\ Len(NewVouchers) >= 1
    /\ NewVouchers[1].start_datetime = 1

\* C20: every voucher create_vouchers / _create_new_voucher persisted has an
\* end_datetime after its start_datetime.
C20_EndAfterStart ==
    CreateCalled
        => \A i \in DOMAIN db.vouchers :
               db.vouchers[i].end_datetime > db.vouchers[i].start_datetime

\* the offer is that of an enrollment coupon: a percentage benefit of 100
EnrollmentBenefit(benefit) == benefit.type = PERCENTAGE /\ benefit.value = Number(100)

\* C21: _create_new_voucher with an offer whose benefit is a percentage of 100 and a
\* non-empty code raises a validation error and creates no voucher, so every voucher
\* created for such an offer carries a generated code.
C21_EnrollmentCodeIsGenerated ==
    /\ (CreateCalled /\ ReachesNewVoucher /\ EnrollmentBenefit(ccall.args.benefit)
            /\ ccall.args.code # NoCode)
           => CreateRaised("ValidationError") /\ NewVouchers = <<>>
    /\ CreateCalled
           => \A i \in DOMAIN NewVouchers :
                  (\E o \in NewVouchers[i].offers : EnrollmentBenefit(o.benefit))
                      => /\ ccall.args.code = NoCode
                         /\ NewVouchers[i].code \in generated_codes(VOUCHER_CODE_LENGTH)

C21_Witness ==
    /\ CreateCalled
    /\ EnrollmentBenefit(ccall.args.benefit)
    /\ ccall.args.code = <<"A">>
    /\ passes_checks([ccall.args EXCEPT !.code = NoCode])
    /\ ccall.before.vouchers = <<>>
    /\ CreateRaised("ValidationError")
    /\ NewVouchers = <<>>

OffersOfCall ==
    LET n == IF ccall.args.voucher_type = SINGLE_USE THEN 1 ELSE ccall.args.quantity
    IN  {OfferRow(offer_name(COUPON, ccall.args.benefit, num), range_name(COUPON),
                  ccall.args.benefit, converted_max_uses(ccall.args.max_uses)) :
             num \in 0..(n - 1)}

\* C30 as stated: whenever create_vouchers raises a validation error (max_uses on
\* SINGLE_USE, max_uses that is no number, invalid benefit value, explicit code on an
\* enrollment coupon, missing or malformed date) nothing the call created remains.
C30_AllOrNothing ==
    CreateRaised("ValidationError") => db = ccall.before

\* C30 as the code has it: a call that raises for max_uses leaves the tables as they
\* were; one that raises for the benefit value leaves the Range it created; one that
\* raises for an explicit code on an enrollment coupon or for a date leaves the Range and
\* every offer of the call; none of them leaves a Voucher.
C30_WritesBeforeTheErrorRemain ==
    CreateRaised("ValidationError")
        => /\ db.vouchers = ccall.before.vouchers
           /\ IF max_uses_check(ccall.args.voucher_type, ccall.args.max_uses) # None
              THEN db = ccall.before
              ELSE /\ db.ranges = ccall.before.ranges \cup {range_name(COUPON)}
                   /\ db.ranges # ccall.before.ranges
                   /\ IF ccall.args.benefit.value = None
                      THEN db.offers = ccall.before.offers
                      ELSE /\ DOMAIN db.offers = DOMAIN ccall.before.offers \cup OffersOfCall
                           /\ OffersOfCall \cap DOMAIN ccall.before.offers = {}

C30_Witness ==
    /\ CreateRaised("ValidationError")
    /\ ccall.args.end_datetime = BadDateString
    /\ ccall.args.voucher_type = MULTI_USE
    /\ ccall.args.quantity >= 2
    /\ ccall.before = NoTables
    /\ db.vouchers = <<>>
    /\ db.ranges = {range_name(COUPON)}
    /\ Cardinality(DOMAIN db.offers) = ccall.args.quantity

\* the voucher of the call passes every check but the one on the product
OtherwiseValid(c) ==
    /\ c.voucher # None
    /\ c.request # None
    /\ WindowOpen(c)
    /\ ~(is_authenticated(c.request.user) /\ UsedBy(c, c.request.user))
    /\ OfferOk(c)

ProductUnavailable == Returned(FALSE, "Product not available for purchase.")

\* C25: purchase availability is checked only when the products list holds exactly one
\* product: an otherwise valid voucher with one product that is not available to buy is
\* invalid, and with two or more products it is valid even if one is not available.
C25_AvailabilityOnlyForOneProduct ==
    (Called /\ OtherwiseValid(vcall))
        => /\ (Len(vcall.products) = 1 /\ ~vcall.products[1].is_available_to_buy)
                  => vcall.result = ProductUnavailable
           /\ Len(vcall.products) >= 2 => vcall.result = Valid

C25_Witness ==
    /\ Called
    /\ OtherwiseValid(vcall)
    /\ Len(vcall.products) = 2
    /\ ~vcall.products[1].is_available_to_buy
    /\ vcall.products[2].is_available_to_buy
    /\ vcall.result = Valid

\* C29 as stated: a call in which voucher.is_active() returned False never returns
\* (True, ''), also when the clock advances between the read inside is_active() and the
\* second read of timezone.now().
C29_InactiveNeverValid ==
    (Called /\ vcall.voucher # None /\ ~is_active(vcall.voucher, vcall.now1))
        => vcall.result # Valid

\* C29 as the code has it: a call in which is_active() returned False returns 'not yet
\* valid' or 'has expired' when the second clock read is still outside the window; when
\* the clock has reached start_datetime by the second read the call goes on to the other
\* checks, and returns (True, '') when they pass.
C29_InactiveAtSecondReadNeverValid ==
    (Called /\ vcall.voucher # None /\ ~is_active(vcall.voucher, vcall.now1))
        => IF is_active(vcall.voucher, vcall.now2)
           THEN (OtherwiseValid(vcall) /\ ProductOk(vcall)) => vcall.result = Valid
           ELSE vcall.result \in {NotYetValid, Returned(FALSE, "This coupon code has expired.")}

C29_Witness ==
    /\ Called
    /\ vcall.voucher # None
    /\ ~is_active(vcall.voucher, vcall.now1)
    /\ is_active(vcall.voucher, vcall.now2)
    /\ vcall.now1 < vcall.voucher.start_datetime
    /\ vcall.result = Valid

-----------------------------------------------------------------------------
(* Properties of get_cached_voucher (SpecCache) *)

\* the entry of the latest call's code was live when the call was made
WasHit ==
    /\ cache.last.entry_before # None
    /\ cache.last.at < cache.last.entry_before.expires

\* C23: on a hit the call returns the cached voucher without reading the store; on a miss
\* it reads the store by code, caches the row with timeout VOUCHER_CACHE_TIMEOUT and
\* returns it; when the store has no voucher with the code it raises Voucher.DoesNotExist
\* and caches nothing.  A returned voucher was read from the store at most
\* VOUCHER_CACHE_TIMEOUT before it is returned.
C23_ReadThroughTimeBoxedCache ==
    cache.last # None
        => LET last == cache.last
               entry == cache.entries[cache_key(last.code)]
           IN  /\ WasHit
                     => /\ last.result = Return(last.entry_before.value)
                        /\ ~last.read_store
                        /\ entry = last.entry_before
               /\ (~WasHit /\ last.stored # None)
                     => /\ last.read_store
                        /\ last.result = Return(last.stored)
                        /\ last.stored.code = last.code
                        /\ entry = [value |-> last.stored, set_at |-> last.at,
                                    expires |-> last.at + VOUCHER_CACHE_TIMEOUT]
               /\ (~WasHit /\ last.stored = None)
                     => /\ last.read_store
                        /\ last.result = DoesNotExist
                        /\ entry = last.entry_before
               /\ ~last.result.raised
                     => last.at - last.read_at <= VOUCHER_CACHE_TIMEOUT

\* a hit returns a row the store has rewritten since, shortly before the entry expires
C23_Witness ==
    /\ cache.last # None
    /\ WasHit
    /\ ~cache.last.result.raised
    /\ cache.store[COUPON_CODE] # None
    /\ cache.last.result.value.version < cache.store[COUPON_CODE].version
    /\ cache.last.at - cache.last.read_at = VOUCHER_CACHE_TIMEOUT - 1
    /\ clock = cache.last.at

-----------------------------------------------------------------------------
(* Properties of EnrollmentCodeCsvView.get (SpecCsv) *)

\* the order the request names, if there is one
OrdersNamed == {o \in csvcall.orders : o.number = csvcall.number}
\* every voucher code of the orders
AllOrderCodes ==
    {o.lines[i].vouchers[j] : <<o, i, j>> \in
        {<<o, i, j>> \in csvcall.orders \X (1..MaxLines) \X (1..2) :
            i \in DOMAIN o.lines /\ j \in DOMAIN o.lines[i].vouchers}}
\* the voucher codes a response shows
CodesShown(response) ==
    IF response.raised
    THEN {}
    ELSE {response.rows[k][1] : k \in {k \in DOMAIN response.rows :
                                          Len(response.rows[k]) = 2}} \cap AllOrderCodes

\* C24: a logged-in user gets the CSV (the row 'Order Number:', <number>, then for each
\* order line the product title and its code / redemption URL pairs) only when an order
\* with the number exists and the user is the order's user or is staff; for an unknown
\* number the view raises Http404 and for any other user PermissionDenied, and then no
\* voucher code is disclosed.
C24_CsvOnlyForOwnerOrStaff ==
    (csvcall.called /\ is_authenticated(csvcall.user))
        => IF OrdersNamed = {}
           THEN csvcall.response = Http404
           ELSE \A o \in OrdersNamed :
                    IF csvcall.user = o.user \/ csvcall.is_staff
                    THEN /\ csvcall.response.status = 200
                         /\ csvcall.response.content_type = "text/csv"
                         /\ csvcall.response.rows[1] = <<"Order Number:", o.number>>
                         /\ CodesShown(csvcall.response)
                                = {o.lines[i].vouchers[j] : <<i, j>> \in
                                      {<<i, j>> \in (1..MaxLines) \X (1..2) :
                                          i \in DOMAIN o.lines
                                              /\ j \in DOMAIN o.lines[i].vouchers}}
                         /\ \A i \in DOMAIN o.lines :
                                \E k \in DOMAIN csvcall.response.rows :
                                    /\ csvcall.response.rows[k] = <<o.lines[i].title>>
                                    /\ \A j \in DOMAIN o.lines[i].vouchers :
                                           csvcall.response.rows[k + 1 + j]
                                               = <<o.lines[i].vouchers[j],
                                                   <<REDEEM_URL, "?code=",
                                                     o.lines[i].vouchers[j]>> >>
                    ELSE /\ csvcall.response = PermissionDenied
                         /\ CodesShown(csvcall.response) = {}

\* a user who is neither the order's user nor staff asks for an order with codes
C24_Witness ==
    /\ csvcall.called
    /\ is_authenticated(csvcall.user)
    /\ ~csvcall.is_staff
    /\ \E o \in OrdersNamed :
           /\ o.user # csvcall.user
           /\ Len(o.lines) = 2
           /\ o.lines[1].vouchers # <<>>
    /\ csvcall.response = PermissionDenied

-----------------------------------------------------------------------------
(* Properties of create_coupon_product (SpecCoupon) *)

\* C26: create_coupon_product called with valid arguments returns a coupon product
\* whose CouponVouchers row holds exactly the quantity vouchers create_vouchers created
\* for it, and the product has a stock record priced at the given price (stated for
\* calls whose codes are generated).
C26_CouponProductWithItsVouchers ==
    (catalogue.called /\ catalogue.args.code = NoCode)
        => /\ ~catalogue.result.raised
           /\ \E cv \in catalogue.tables.coupon_vouchers :
                  /\ cv.coupon = catalogue.result.value
                  /\ Len(cv.vouchers) = catalogue.args.quantity
           /\ StockRecordOf(catalogue.result.value, catalogue.args.price)
                  \in catalogue.tables.stock_records

-----------------------------------------------------------------------------
(* Properties of prepare_basket (SpecBasket) *)

\* the voucher's offer gives its percentage benefit on the product of the call
BenefitOnProduct == bcall.voucher # "" /\ bcall.product \in bcall.offer.range

-----------------------------------------------------------------------------
(* Properties of get_or_create_catalog (SpecCatalog) *)

\* the catalogs of a table with the name, partner and set of stock records of the last call
MatchingLast(catalogs) ==
    {i \in DOMAIN catalogs :
        /\ catalogs[i].name = catalogue.last.name
        /\ catalogs[i].partner = catalogue.last.partner
        /\ catalogs[i].stock_records
               = {catalogue.last.stock_record_ids[k] :
                     k \in DOMAIN catalogue.last.stock_record_ids}}

LastReturned == catalogue.last # None /\ ~catalogue.last.result.raised

\* C28: get_or_create_catalog(name, partner, stock_record_ids) returns (catalog, False)
\* for an existing catalog with the same name, partner and exactly the same set of stock
\* records, and otherwise creates a catalog holding exactly those stock records and returns
\* (catalog, True); so after any sequence of calls there is at most one catalog it
\* created per (name, partner, stock-record set), and a repeated call returns the first
\* call's catalog.
C28_GetOrCreateCatalog ==
    /\ LastReturned =>
           LET before == catalogue.last.before
               returned == catalogue.last.result.value
           IN  /\ IF MatchingLast(before) # {}
                  THEN /\ returned[2] = FALSE
                       /\ \E i \in MatchingLast(before) : returned[1] = before[i]
                       /\ catalogue.catalogs = before
                  ELSE /\ returned[2] = TRUE
                       /\ catalogue.catalogs = Append(before, returned[1])
                       /\ MatchingLast(catalogue.catalogs) = {Len(catalogue.catalogs)}
               /\ returned[1].id
                      = catalogue.first_returned[<<catalogue.last.name, catalogue.last.partner,
                                                   returned[1].stock_records>>]
    /\ \A i, j \in DOMAIN catalogue.catalogs :
           (/\ i # j
            /\ catalogue.catalogs[i].created_here
            /\ catalogue.catalogs[j].created_here)
               => <<catalogue.catalogs[i].name, catalogue.catalogs[i].partner,
                    catalogue.catalogs[i].stock_records>>
                      # <<catalogue.catalogs[j].name, catalogue.catalogs[j].partner,
                          catalogue.catalogs[j].stock_records>>

\* a third call names, with its ids in another order, the catalog the first call created
\* and gets that catalog back, after a second call created one for a subset of the ids
C28_Witness ==
    /\ LastReturned
    /\ catalogue.calls = 3
    /\ catalogue.last.stock_record_ids = <<2, 1>>
    /\ catalogue.last.result.value[2] = FALSE
    /\ catalogue.last.result.value[1].created_here
    /\ catalogue.last.result.value[1].id < Len(catalogue.catalogs)
    /\ \E i \in DOMAIN catalogue.catalogs :
           /\ catalogue.catalogs[i].created_here
           /\ catalogue.catalogs[i].name = catalogue.last.name
           /\ catalogue.catalogs[i].partner = catalogue.last.partner
           /\ catalogue.catalogs[i].stock_records = {1}

=============================================================================
